---------------------------- MODULE Spec2Model ----------------------------
(***************************************************************************)
(* A model of slsh, an interactive shell for the Slurm toolchain:          *)
(*   - the history manager (History.Add / Save / Load / Clear),            *)
(*   - the persisted history encoding (ts|success|duration|command),       *)
(*   - the tokenizer, parser and validator of input lines,                 *)
(*   - the command registry and its three dispatch paths,                  *)
(*   - the REPL (Shell.Run / Shell.executeCommand).                        *)
(*                                                                         *)
(* A Go string is a sequence of one-character strings.  One symbol, Big,   *)
(* stands for a run of MaxScanTokenSize 'x' bytes, so that lines longer    *)
(* than bufio.Scanner's token limit are inputs of the model; another,      *)
(* Long, for a run of defaultBufSize 'y' bytes, so that lines longer than  *)
(* the buffer of bufio.Writer are.                                         *)
(***************************************************************************)
EXTENDS Integers, Sequences, FiniteSets, TLC

VARIABLES
    entries,     \* History.entries: the in-memory log
    maxSize,     \* History.maxSize
    panicked,    \* a Go run-time panic ended the process
    file,        \* the history file: absent, or its text (part: the bytes of a character cut by an exit inside Save)
    nops,        \* operations performed so far (bounds the run)
    accepted,    \* history variable: the entries Add appended, in order
    lastOp,      \* history variable: the last operation and its arguments
    savedLog,    \* history variable: the log the last Save wrote
    fresh,       \* a second History (same maxSize, same file) and its Load result
    pc,          \* where the shell is: "new", "welcome", "loop", "blocked", "done", "exited", "interrupted", "panic" ("idle": no shell)
    running,     \* Shell.running
    aliases,     \* config.Aliases
    registry,    \* Registry.commands: name -> the type of the handler registered
    last,        \* history variable: how the last input line was processed
    nlines,      \* lines read so far (bounds the run)
    pin,         \* the argument of a function applied on its own (outside Run)
    pout         \* the function applied and its result

hvars == <<entries, maxSize, panicked, file>>
gvars == <<nops, accepted, lastOp, savedLog, fresh>>
svars == <<pc, running, aliases, registry, last, nlines>>
pvars == <<pin, pout>>
vars == <<hvars, gvars, svars, pvars>>

-----------------------------------------------------------------------------
(* Bounds of the model. *)

MaxSizeBound == 2
MaxOps == 4

(* bufio.MaxScanTokenSize: a line of this many bytes or more makes Scan stop with ErrTooLong. *)
MaxScanTokenSize == 65536

\* The size of the buffer of bufio.NewWriter.
defaultBufSize == 4096

-----------------------------------------------------------------------------
(* Strings. *)

Big == "<x*65536>"

\* A run of as many y's as the buffer of a bufio.Writer holds, as one character.
Long == "<y*4096>"

Min(a, b) == IF a < b THEN a ELSE b

ByteWidth(c) == IF c = Big THEN MaxScanTokenSize ELSE IF c = Long THEN defaultBufSize ELSE 1

RECURSIVE ByteLen(_)
ByteLen(s) == IF s = <<>> THEN 0 ELSE ByteWidth(Head(s)) + ByteLen(Tail(s))

\* unicode.IsSpace on the characters of the model
IsSpace(c) == c \in {" ", "\t", "\r", "\n"}

RECURSIVE TrimLeft(_)
TrimLeft(s) == IF s # <<>> /\ IsSpace(Head(s)) THEN TrimLeft(Tail(s)) ELSE s

RECURSIVE TrimRight(_)
TrimRight(s) ==
    IF s # <<>> /\ IsSpace(s[Len(s)]) THEN TrimRight(SubSeq(s, 1, Len(s) - 1)) ELSE s

\* strings.TrimSpace
TrimSpace(s) == TrimRight(TrimLeft(s))

\* s[lo:] on a slice: the elements from index lo (0-based) on. Defined for 0 <= lo <= len(s).
SliceFrom(s, lo) == SubSeq(s, lo + 1, Len(s))

\* whether s[lo:] panics (slice bounds out of range)
SliceFromPanics(s, lo) == lo < 0 \/ lo > Len(s)

-----------------------------------------------------------------------------
(* History: the in-memory log. *)

HistoryEntry(command, timestamp, success, duration) ==
    [Command |-> command, Timestamp |-> timestamp, Success |-> success, Duration |-> duration]

\* Two variants of KeepLast, keeping the oldest entries and keeping one entry too many.
KeepLastDropsNewest(es, m) == IF Len(es) > m THEN SubSeq(es, 1, m) ELSE es
KeepLastOffByOne(es, m) == IF Len(es) > m + 1 THEN SliceFrom(es, Len(es) - (m + 1)) ELSE es
\* "Maintain max size": the log after the trim of Add and of Load
KeepLast(es, m) == IF Len(es) > m THEN SliceFrom(es, Len(es) - m) ELSE es

KeepLastPanics(es, m) == Len(es) > m /\ SliceFromPanics(es, Len(es) - m)

\* A variant of IsRepeat without the check.
IsRepeatNever(es, command) == FALSE
\* "Skip if same as last command"
IsRepeat(es, command) == Len(es) > 0 /\ es[Len(es)].Command = command

\* History.Add: the log it leaves, whether it appended, whether it panicked.
Add(es, m, command, success, duration, now) ==
    LET entry == HistoryEntry(TrimSpace(command), now, success, duration)
        appended == Append(es, entry)
    IN  IF entry.Command = <<>> \/ IsRepeat(es, entry.Command)
        THEN [entries |-> es, appended |-> FALSE, panic |-> FALSE]
        ELSE IF KeepLastPanics(appended, m)
        THEN [entries |-> appended, appended |-> TRUE, panic |-> TRUE]
        ELSE [entries |-> KeepLast(appended, m), appended |-> TRUE, panic |-> FALSE]

-----------------------------------------------------------------------------
(* The persisted encoding: one line per entry, timestamp|success|duration|command. *)

\* The history file: absent, or present with a text.
NoFile == [exists |-> FALSE, text |-> <<>>]

FileOf(text) == [exists |-> TRUE, text |-> text]

Digits == <<"0", "1", "2", "3", "4", "5", "6", "7", "8", "9">>

IsDigit(c) == \E i \in 1..10 : Digits[i] = c

DigitVal(c) == (CHOOSE i \in 1..10 : Digits[i] = c) - 1

\* fmt's %d of a non-negative integer
RECURSIVE DecNat(_)
DecNat(n) == IF n < 10 THEN <<Digits[n + 1]>> ELSE DecNat(n \div 10) \o <<Digits[(n % 10) + 1]>>

\* fmt's %d
Dec(n) == IF n < 0 THEN <<"-">> \o DecNat(-n) ELSE DecNat(n)

\* fmt's %t
BoolStr(b) == IF b THEN <<"t", "r", "u", "e">> ELSE <<"f", "a", "l", "s", "e">>

\* Timestamp.Unix(): the seconds of an instant
Unix(t) == t.sec

\* time.Unix(sec, 0)
TimeUnix(sec) == [sec |-> sec, nsec |-> 0]

\* The line Save writes for one entry, with its newline.
FormatLine(e) ==
    Dec(Unix(e.Timestamp)) \o <<"|">> \o BoolStr(e.Success) \o <<"|">> \o Dec(e.Duration)
        \o <<"|">> \o e.Command \o <<"\n">>

\* History.Save with a file that can be created and written: the text of the file.
RECURSIVE SaveText(_)
SaveText(es) == IF es = <<>> THEN <<>> ELSE FormatLine(Head(es)) \o SaveText(Tail(es))

\* Index of the first occurrence of character c in s, 0 when there is none.
RECURSIVE IndexOf(_, _)
IndexOf(s, c) ==
    IF s = <<>> THEN 0
    ELSE IF Head(s) = c THEN 1
    ELSE LET i == IndexOf(Tail(s), c) IN IF i = 0 THEN 0 ELSE i + 1

\* bufio.ScanLines over the whole text: the lines, each without its "\n" and
\* without one trailing "\r"; a last line with no newline is a line when non-empty.
DropCR(line) ==
    IF line # <<>> /\ line[Len(line)] = "\r" THEN SubSeq(line, 1, Len(line) - 1) ELSE line

\* The text cut at every "\n"; a last piece with no newline counts when non-empty.
RECURSIVE RawLines(_)
RawLines(text) ==
    IF text = <<>> THEN <<>>
    ELSE LET i == IndexOf(text, "\n")
         IN  IF i = 0 THEN <<text>>
             ELSE <<SubSeq(text, 1, i - 1)>> \o RawLines(SubSeq(text, i + 1, Len(text)))

ScanLines(text) == [i \in 1..Len(RawLines(text)) |-> DropCR(RawLines(text)[i])]

\* Scanner.Scan gives up with ErrTooLong on a line that does not fit its buffer.
TooLong(line) == ByteLen(line) >= MaxScanTokenSize

\* strings.SplitN(s, sep, n) for a one-character sep and n >= 1
RECURSIVE SplitN(_, _, _)
SplitN(s, sep, n) ==
    LET i == IndexOf(s, sep)
    IN  IF n = 1 \/ i = 0 THEN <<s>>
        ELSE <<SubSeq(s, 1, i - 1)>> \o SplitN(SubSeq(s, i + 1, Len(s)), sep, n - 1)

\* The longest prefix of s made of digits.
RECURSIVE DigitPrefix(_)
DigitPrefix(s) ==
    IF s # <<>> /\ IsDigit(Head(s)) THEN <<Head(s)>> \o DigitPrefix(Tail(s)) ELSE <<>>

RECURSIVE NatOf(_)
NatOf(ds) == IF ds = <<>> THEN 0 ELSE 10 * NatOf(SubSeq(ds, 1, Len(ds) - 1)) + DigitVal(ds[Len(ds)])

\* fmt.Sscanf(s, "%d", &v): leading space skipped, an optional sign, then at least
\* one digit; what follows the digits is left unread.
ScanInt(s) ==
    LET t == TrimLeft(s)
        signed == t # <<>> /\ Head(t) \in {"+", "-"}
        u == IF signed THEN Tail(t) ELSE t
        ds == DigitPrefix(u)
    IN  IF ds = <<>> THEN [ok |-> FALSE, val |-> 0]
        ELSE [ok |-> TRUE, val |-> IF signed /\ Head(t) = "-" THEN -NatOf(ds) ELSE NatOf(ds)]

\* Whether s starts with a character of set cs (ss.accept).
Accepts(s, cs) == s # <<>> /\ Head(s) \in cs

\* fmt.Sscanf(s, "%t", &v): scanBool reads one character, checks the rest of
\* true and false only after t or f followed by r or a, and returns false without
\* an error for any other first character.
ScanBool(s) ==
    LET t == TrimLeft(s)
    IN  IF t = <<>> THEN [ok |-> FALSE, val |-> FALSE]
        ELSE IF Head(t) \in {"0"} THEN [ok |-> TRUE, val |-> FALSE]
        ELSE IF Head(t) \in {"1"} THEN [ok |-> TRUE, val |-> TRUE]
        ELSE IF Head(t) \in {"t", "T"} THEN
            LET r == Tail(t)
            IN  IF Accepts(r, {"r", "R"})
                   /\ ~(Accepts(Tail(r), {"u", "U"}) /\ Accepts(Tail(Tail(r)), {"e", "E"}))
                THEN [ok |-> FALSE, val |-> FALSE]
                ELSE [ok |-> TRUE, val |-> TRUE]
        ELSE IF Head(t) \in {"f", "F"} THEN
            LET r == Tail(t)
            IN  IF Accepts(r, {"a", "A"})
                   /\ ~(Accepts(Tail(r), {"l", "L"}) /\ Accepts(Tail(Tail(r)), {"s", "S"})
                        /\ Accepts(Tail(Tail(Tail(r))), {"e", "E"}))
                THEN [ok |-> FALSE, val |-> FALSE]
                ELSE [ok |-> TRUE, val |-> FALSE]
        ELSE [ok |-> TRUE, val |-> FALSE]

\* parseHistoryLine
parseHistoryLine(line) ==
    LET parts == SplitN(line, "|", 4)
    IN  IF Len(parts) # 4 THEN [ok |-> FALSE]
        ELSE LET ts == ScanInt(parts[1])
                 su == ScanBool(parts[2])
                 du == ScanInt(parts[3])
             IN  IF ~ts.ok \/ ~su.ok \/ ~du.ok THEN [ok |-> FALSE]
                 ELSE [ok |-> TRUE,
                       entry |-> HistoryEntry(parts[4], TimeUnix(ts.val), su.val, du.val)]

\* The scan loop of Load: the entries of the valid lines, in file order.
RECURSIVE ReadEntries(_)
ReadEntries(lines) ==
    IF lines = <<>> THEN <<>>
    ELSE LET line == TrimSpace(Head(lines))
             p == parseHistoryLine(line)
         IN  IF line = <<>> \/ ~p.ok THEN ReadEntries(Tail(lines))
             ELSE <<p.entry>> \o ReadEntries(Tail(lines))

\* A variant of Load that adds the lines of the file to the log it finds.
LoadAppends(es, m, f) ==
    IF ~f.exists THEN [entries |-> es, err |-> FALSE, panic |-> FALSE]
    ELSE IF \E i \in 1..Len(RawLines(f.text)) : TooLong(RawLines(f.text)[i])
    THEN [entries |-> es, err |-> TRUE, panic |-> FALSE]
    ELSE LET read == es \o ReadEntries(ScanLines(f.text))
         IN  IF KeepLastPanics(read, m) THEN [entries |-> es, err |-> FALSE, panic |-> TRUE]
             ELSE [entries |-> KeepLast(read, m), err |-> FALSE, panic |-> FALSE]

\* A variant of Load that has replaced the log by what it read before the scan
\* reports its error.
LoadKeepsWhatItRead(es, m, f) ==
    IF ~f.exists THEN [entries |-> es, err |-> FALSE, panic |-> FALSE]
    ELSE IF \E i \in 1..Len(RawLines(f.text)) : TooLong(RawLines(f.text)[i])
    THEN [entries |-> ReadEntries(ScanLines(f.text)), err |-> TRUE, panic |-> FALSE]
    ELSE LET read == ReadEntries(ScanLines(f.text))
         IN  IF KeepLastPanics(read, m) THEN [entries |-> es, err |-> FALSE, panic |-> TRUE]
             ELSE [entries |-> KeepLast(read, m), err |-> FALSE, panic |-> FALSE]

\* History.Load on a History holding es: the log it leaves, the error it returns,
\* whether it panicked.
Load(es, m, f) ==
    IF ~f.exists THEN [entries |-> es, err |-> FALSE, panic |-> FALSE]
    ELSE IF \E i \in 1..Len(RawLines(f.text)) : TooLong(RawLines(f.text)[i])
    THEN [entries |-> es, err |-> TRUE, panic |-> FALSE]
    ELSE LET read == ReadEntries(ScanLines(f.text))
         IN  IF KeepLastPanics(read, m) THEN [entries |-> es, err |-> FALSE, panic |-> TRUE]
             ELSE [entries |-> KeepLast(read, m), err |-> FALSE, panic |-> FALSE]

-----------------------------------------------------------------------------
(* The tokenizer, the parser and the validator of input lines. *)

HasPrefix(s, c) == s # <<>> /\ Head(s) = c

\* The scan state of tokenize before the first character.
TokInit == [tokens |-> <<>>, current |-> <<>>, inQuotes |-> FALSE, quoteChar |-> "", escaped |-> FALSE]

\* Three variants of TokStep: a backslash inside a quoted region is literal and
\* escapes nothing; either quote character closes a region; a space or tab
\* outside a region ends the current token even when it is empty.
TokStepEscapeOutsideOnly(st, ch) ==
    IF st.escaped THEN [st EXCEPT !.current = Append(@, ch), !.escaped = FALSE]
    ELSE IF ch = "\\" THEN
        IF st.inQuotes THEN [st EXCEPT !.current = Append(@, ch)] ELSE [st EXCEPT !.escaped = TRUE]
    ELSE IF ch \in {"\"", "'"} THEN
        IF ~st.inQuotes THEN [st EXCEPT !.inQuotes = TRUE, !.quoteChar = ch]
        ELSE IF ch = st.quoteChar THEN [st EXCEPT !.inQuotes = FALSE]
        ELSE [st EXCEPT !.current = Append(@, ch)]
    ELSE IF ch \in {" ", "\t"} THEN
        IF st.inQuotes THEN [st EXCEPT !.current = Append(@, ch)]
        ELSE IF st.current # <<>> THEN [st EXCEPT !.tokens = Append(@, st.current), !.current = <<>>]
        ELSE st
    ELSE [st EXCEPT !.current = Append(@, ch)]
TokStepAnyQuoteCloses(st, ch) ==
    IF st.escaped THEN [st EXCEPT !.current = Append(@, ch), !.escaped = FALSE]
    ELSE IF ch = "\\" THEN [st EXCEPT !.escaped = TRUE]
    ELSE IF ch \in {"\"", "'"} THEN
        IF ~st.inQuotes THEN [st EXCEPT !.inQuotes = TRUE, !.quoteChar = ch]
        ELSE [st EXCEPT !.inQuotes = FALSE]
    ELSE IF ch \in {" ", "\t"} THEN
        IF st.inQuotes THEN [st EXCEPT !.current = Append(@, ch)]
        ELSE IF st.current # <<>> THEN [st EXCEPT !.tokens = Append(@, st.current), !.current = <<>>]
        ELSE st
    ELSE [st EXCEPT !.current = Append(@, ch)]
TokStepEmitsEmpty(st, ch) ==
    IF st.escaped THEN [st EXCEPT !.current = Append(@, ch), !.escaped = FALSE]
    ELSE IF ch = "\\" THEN [st EXCEPT !.escaped = TRUE]
    ELSE IF ch \in {"\"", "'"} THEN
        IF ~st.inQuotes THEN [st EXCEPT !.inQuotes = TRUE, !.quoteChar = ch]
        ELSE IF ch = st.quoteChar THEN [st EXCEPT !.inQuotes = FALSE]
        ELSE [st EXCEPT !.current = Append(@, ch)]
    ELSE IF ch \in {" ", "\t"} THEN
        IF st.inQuotes THEN [st EXCEPT !.current = Append(@, ch)]
        ELSE [st EXCEPT !.tokens = Append(@, st.current), !.current = <<>>]
    ELSE [st EXCEPT !.current = Append(@, ch)]
\* One iteration of tokenize's loop, on character ch.
TokStep(st, ch) ==
    IF st.escaped THEN [st EXCEPT !.current = Append(@, ch), !.escaped = FALSE]
    ELSE IF ch = "\\" THEN [st EXCEPT !.escaped = TRUE]
    ELSE IF ch \in {"\"", "'"} THEN
        IF ~st.inQuotes THEN [st EXCEPT !.inQuotes = TRUE, !.quoteChar = ch]
        ELSE IF ch = st.quoteChar THEN [st EXCEPT !.inQuotes = FALSE]
        ELSE [st EXCEPT !.current = Append(@, ch)]
    ELSE IF ch \in {" ", "\t"} THEN
        IF st.inQuotes THEN [st EXCEPT !.current = Append(@, ch)]
        ELSE IF st.current # <<>> THEN [st EXCEPT !.tokens = Append(@, st.current), !.current = <<>>]
        ELSE st
    ELSE [st EXCEPT !.current = Append(@, ch)]

RECURSIVE TokScan(_, _)
TokScan(line, st) == IF line = <<>> THEN st ELSE TokScan(Tail(line), TokStep(st, Head(line)))

\* A variant of tokenize that keeps a backslash left pending at the end of the line.
tokenizeKeepsLastBackslash(line) ==
    LET st == TokScan(line, TokInit)
        current == IF st.escaped THEN Append(st.current, "\\") ELSE st.current
    IN  IF st.inQuotes THEN [ok |-> FALSE, tokens |-> <<>>]
        ELSE [ok |-> TRUE,
              tokens |-> IF current # <<>> THEN Append(st.tokens, current) ELSE st.tokens]
\* A variant of tokenize without the unclosed-quote error.
tokenizeNeverFails(line) ==
    LET st == TokScan(line, TokInit)
    IN  [ok |-> TRUE,
         tokens |-> IF st.current # <<>> THEN Append(st.tokens, st.current) ELSE st.tokens]
\* tokenize: the tokens of a line, or the unclosed-quote error.
tokenize(line) ==
    LET st == TokScan(line, TokInit)
    IN  IF st.inQuotes THEN [ok |-> FALSE, tokens |-> <<>>]
        ELSE [ok |-> TRUE,
              tokens |-> IF st.current # <<>> THEN Append(st.tokens, st.current) ELSE st.tokens]

\* map[string]string
EmptyMap == [k \in {} |-> <<>>]

\* A variant of Put that keeps the value a key already has.
PutKeepsFirst(m, k, v) == [x \in (DOMAIN m) \cup {k} |-> IF x \in DOMAIN m THEN m[x] ELSE v]
\* m[k] = v
Put(m, k, v) == [x \in (DOMAIN m) \cup {k} |-> IF x = k THEN v ELSE m[x]]

\* slurm.Command
Command(name, args, options) == [Name |-> name, Args |-> args, Options |-> options]

\* A variant of ParseTokens in which no option takes a value.
RECURSIVE ParseTokensFlagsOnly(_, _, _)
ParseTokensFlagsOnly(tokens, i, cmd) ==
    IF i > Len(tokens) THEN cmd
    ELSE IF HasPrefix(tokens[i], "-")
    THEN ParseTokensFlagsOnly(tokens, i + 1, [cmd EXCEPT !.Options = Put(@, tokens[i], <<>>)])
    ELSE ParseTokensFlagsOnly(tokens, i + 1, [cmd EXCEPT !.Args = Append(@, tokens[i])])
\* The loop of ParseCommand over tokens[i..], 1-based.
RECURSIVE ParseTokens(_, _, _)
ParseTokens(tokens, i, cmd) ==
    IF i > Len(tokens) THEN cmd
    ELSE IF HasPrefix(tokens[i], "-") THEN
        IF i + 1 <= Len(tokens) /\ ~HasPrefix(tokens[i + 1], "-")
        THEN ParseTokens(tokens, i + 2, [cmd EXCEPT !.Options = Put(@, tokens[i], tokens[i + 1])])
        ELSE ParseTokens(tokens, i + 1, [cmd EXCEPT !.Options = Put(@, tokens[i], <<>>)])
    ELSE ParseTokens(tokens, i + 1, [cmd EXCEPT !.Args = Append(@, tokens[i])])

NoCommand == Command(<<>>, <<>>, EmptyMap)

\* A variant of ParseCommand without the "no tokens found" error.
ParseCommandEmptyName(line) ==
    LET trimmed == TrimSpace(line)
        t == tokenize(trimmed)
    IN  IF trimmed = <<>> THEN [ok |-> FALSE, err |-> "empty command", cmd |-> NoCommand]
        ELSE IF ~t.ok THEN [ok |-> FALSE, err |-> "unclosed quote", cmd |-> NoCommand]
        ELSE IF Len(t.tokens) = 0 THEN [ok |-> TRUE, err |-> "", cmd |-> NoCommand]
        ELSE [ok |-> TRUE, err |-> "",
              cmd |-> ParseTokens(t.tokens, 2, Command(t.tokens[1], <<>>, EmptyMap))]
\* ParseCommand: the command of a line, or the error ("empty command",
\* "failed to tokenize command", "no tokens found").
ParseCommand(line) ==
    LET trimmed == TrimSpace(line)
        t == tokenize(trimmed)
    IN  IF trimmed = <<>> THEN [ok |-> FALSE, err |-> "empty command", cmd |-> NoCommand]
        ELSE IF ~t.ok THEN [ok |-> FALSE, err |-> "unclosed quote", cmd |-> NoCommand]
        ELSE IF Len(t.tokens) = 0 THEN [ok |-> FALSE, err |-> "no tokens found", cmd |-> NoCommand]
        ELSE [ok |-> TRUE, err |-> "",
              cmd |-> ParseTokens(t.tokens, 2, Command(t.tokens[1], <<>>, EmptyMap))]

Count(s, c) == Cardinality({i \in 1..Len(s) : s[i] = c})

\* isValidTimeFormat of the shell package
isValidTimeFormat(timeStr) ==
    IF Count(timeStr, ":") > 0
    THEN Count(timeStr, ":") + 1 >= 2 /\ Count(timeStr, ":") + 1 <= 3
    ELSE (\A i \in 1..Len(timeStr) : IsDigit(timeStr[i])) /\ Len(timeStr) > 0

OptN == <<"-", "N">>
OptW == <<"-", "w">>
OptT == <<"-", "t">>

\* A variant of ValidateCommand in which -N and -w conflict only when both have a value.
ValidateCommandValuesConflict(cmd) ==
    IF cmd.Name = <<>> THEN "command name cannot be empty"
    ELSE IF OptN \in DOMAIN cmd.Options /\ OptW \in DOMAIN cmd.Options
            /\ cmd.Options[OptN] # <<>> /\ cmd.Options[OptW] # <<>>
    THEN "cannot specify both -N (nodes) and -w (nodelist)"
    ELSE IF OptT \in DOMAIN cmd.Options /\ cmd.Options[OptT] # <<>>
            /\ ~isValidTimeFormat(cmd.Options[OptT])
    THEN "invalid time format"
    ELSE ""
\* ValidateCommand: "" when the command is valid, else the error.
ValidateCommand(cmd) ==
    IF cmd.Name = <<>> THEN "command name cannot be empty"
    ELSE IF OptN \in DOMAIN cmd.Options /\ OptW \in DOMAIN cmd.Options
    THEN "cannot specify both -N (nodes) and -w (nodelist)"
    ELSE IF OptT \in DOMAIN cmd.Options /\ cmd.Options[OptT] # <<>>
            /\ ~isValidTimeFormat(cmd.Options[OptT])
    THEN "invalid time format"
    ELSE ""

\* strings.Join
RECURSIVE Join(_, _)
Join(parts, sep) ==
    IF parts = <<>> THEN <<>>
    ELSE IF Len(parts) = 1 THEN parts[1]
    ELSE parts[1] \o sep \o Join(Tail(parts), sep)

-----------------------------------------------------------------------------
(* Names. *)

LINE_QUOTE == <<"\"">>
LINE_NW == <<"l", "s", " ", "-", "N", " ", "-", "w">>
LINE_ALIASQ == <<"q", " ", "'", "\"", "'">>

S_squeue == <<"s", "q", "u", "e", "u", "e">>
S_run == <<"r", "u", "n">>
S_submit == <<"s", "u", "b", "m", "i", "t">>
S_status == <<"s", "t", "a", "t", "u", "s">>
S_cancel == <<"c", "a", "n", "c", "e", "l">>
S_queue == <<"q", "u", "e", "u", "e">>
S_jobs == <<"j", "o", "b", "s">>
S_nodes == <<"n", "o", "d", "e", "s">>
S_partitions == <<"p", "a", "r", "t", "i", "t", "i", "o", "n", "s">>
S_history == <<"h", "i", "s", "t", "o", "r", "y">>
S_alias == <<"a", "l", "i", "a", "s">>
S_config == <<"c", "o", "n", "f", "i", "g">>
S_help == <<"h", "e", "l", "p">>
S_exit == <<"e", "x", "i", "t">>
S_quit == <<"q", "u", "i", "t">>
S_q == <<"q">>
S_ls == <<"l", "s">>

-----------------------------------------------------------------------------
(* External programs and the client that runs them. *)

\* What a child process does: whether it could be started, its exit status,
\* what it wrote to its standard output and standard error, and whether it exits
\* of its own accord (a child that does not runs until it is killed).
Child(started, exit, stdout, stderr, exits) ==
    [started |-> started, exit |-> exit, stdout |-> stdout, stderr |-> stderr, exits |-> exits]

NoChild == Child(FALSE, 0, "", "", TRUE)

Children ==
    { Child(TRUE, 0, "out", "", TRUE), Child(TRUE, 0, "out", "warn", TRUE),
      Child(TRUE, 1, "out", "err", TRUE), Child(FALSE, 0, "", "", TRUE),
      Child(TRUE, 0, "out", "", FALSE) }

\* exec.Cmd.Run, when it returns: nil only for a child that started and exited
\* with status 0.
RunFails(child) == ~child.started \/ child.exit # 0

\* The context of Client.Execute expires (c.timeout) before the child exits: the
\* child is killed and cmd.Run returns an error.
TimedOut(child) == child.started /\ ~child.exits

\* Client.Execute: the CommandResult and the error.
ClientExecute(child) ==
    [err |-> RunFails(child) \/ TimedOut(child), Output |-> child.stdout, Error |-> child.stderr]

\* Client.ExecuteInteractive: the error of cmd.Run().
ExecuteInteractive(child) == RunFails(child)

\* Client.ExecuteInteractive has no timeout: cmd.Run() does not return while the
\* child runs.
NeverReturns(path, child) == path = "interactive" /\ child.started /\ ~child.exits

\* What the shell prints: the stream it echoes and the text.
Echo(stream, text) == [stream |-> stream, text |-> text]

\* fmt.Print of a captured stream when it is not empty.
PrintIfAny(stream, text) == IF text # "" THEN <<Echo(stream, text)>> ELSE <<>>

\* The outcome of a dispatch: the path taken, the error returned, what was printed,
\* whether a child program was run, whether Stop was called, the alias set.
Outcome(path, err, echo, ran, stop, setAlias) ==
    [path |-> path, err |-> err, echo |-> echo, ran |-> ran, stop |-> stop, setAlias |-> setAlias]

NoAlias == <<>>

-----------------------------------------------------------------------------
(* The built-in handlers. *)

\* A handler that runs one toolchain program through Client.Execute.
ToolHandler(needsArg, echoOut, echoErr, cmd, child) ==
    IF needsArg /\ Len(cmd.Args) = 0 THEN Outcome("handler", TRUE, <<>>, FALSE, FALSE, NoAlias)
    ELSE LET r == ClientExecute(child)
         IN  IF r.err THEN Outcome("handler", TRUE, <<>>, TRUE, FALSE, NoAlias)
             ELSE Outcome("handler", FALSE,
                          (IF echoOut THEN PrintIfAny("stdout", r.Output) ELSE <<>>)
                              \o (IF echoErr THEN PrintIfAny("stderr", r.Error) ELSE <<>>),
                          TRUE, FALSE, NoAlias)

RunCommand(cmd, child) == ToolHandler(TRUE, TRUE, TRUE, cmd, child)
SubmitCommand(cmd, child) == ToolHandler(TRUE, TRUE, FALSE, cmd, child)
StatusCommand(cmd, child) == ToolHandler(TRUE, TRUE, TRUE, cmd, child)
CancelCommand(cmd, child) == ToolHandler(TRUE, FALSE, FALSE, cmd, child)
QueueCommand(cmd, child) == ToolHandler(FALSE, TRUE, TRUE, cmd, child)
JobsCommand(cmd, child) == ToolHandler(FALSE, TRUE, FALSE, cmd, child)
NodesCommand(cmd, child) == ToolHandler(FALSE, TRUE, FALSE, cmd, child)
PartitionsCommand(cmd, child) == ToolHandler(FALSE, TRUE, FALSE, cmd, child)

\* Handlers that only print.
HistoryCommand(cmd, child) == Outcome("handler", FALSE, <<>>, FALSE, FALSE, NoAlias)
HelpCommand(cmd, child) == Outcome("handler", FALSE, <<>>, FALSE, FALSE, NoAlias)
ConfigCommand(cmd, child) == Outcome("handler", FALSE, <<>>, FALSE, FALSE, NoAlias)

\* exit, quit: Stop the shell.
ExitCommand(cmd, child) == Outcome("handler", FALSE, <<>>, FALSE, TRUE, NoAlias)

\* alias <name> <expansion>: set an alias; with fewer arguments, list the aliases.
AliasCommand(cmd, child) ==
    Outcome("handler", FALSE, <<>>, FALSE, FALSE,
            IF Len(cmd.Args) >= 2 THEN <<cmd.Args[1], cmd.Args[2]>> ELSE NoAlias)

HandlerKinds ==
    { "RunCommand", "SubmitCommand", "StatusCommand", "CancelCommand", "QueueCommand",
      "JobsCommand", "NodesCommand", "PartitionsCommand", "HistoryCommand", "HelpCommand",
      "ConfigCommand", "ExitCommand", "AliasCommand" }

\* handler.Execute(cmd, shell) for a handler of the given type.
HandlerExecute(kind, cmd, child) ==
    CASE kind = "RunCommand" -> RunCommand(cmd, child)
      [] kind = "SubmitCommand" -> SubmitCommand(cmd, child)
      [] kind = "StatusCommand" -> StatusCommand(cmd, child)
      [] kind = "CancelCommand" -> CancelCommand(cmd, child)
      [] kind = "QueueCommand" -> QueueCommand(cmd, child)
      [] kind = "JobsCommand" -> JobsCommand(cmd, child)
      [] kind = "NodesCommand" -> NodesCommand(cmd, child)
      [] kind = "PartitionsCommand" -> PartitionsCommand(cmd, child)
      [] kind = "HistoryCommand" -> HistoryCommand(cmd, child)
      [] kind = "HelpCommand" -> HelpCommand(cmd, child)
      [] kind = "ConfigCommand" -> ConfigCommand(cmd, child)
      [] kind = "ExitCommand" -> ExitCommand(cmd, child)
      [] kind = "AliasCommand" -> AliasCommand(cmd, child)

-----------------------------------------------------------------------------
(* The registry and its dispatch. *)

\* NewRegistry()
EmptyRegistry == [n \in {} |-> ""]

\* Registry.Register
Register(reg, name, kind) == Put(reg, name, kind)

\* The registry after registerBuiltinCommands.
Builtins ==
    LET names == { S_run, S_submit, S_status, S_cancel, S_queue, S_jobs, S_nodes,
                   S_partitions, S_history, S_alias, S_config, S_help, S_exit, S_quit,
                   S_q, <<"j">>, <<"n">>, <<"h">> }
    IN  [name \in names |->
            CASE name = S_run -> "RunCommand"
              [] name = S_submit -> "SubmitCommand"
              [] name = S_status -> "StatusCommand"
              [] name = S_cancel -> "CancelCommand"
              [] name \in {S_queue, S_q} -> "QueueCommand"
              [] name \in {S_jobs, <<"j">>} -> "JobsCommand"
              [] name \in {S_nodes, <<"n">>} -> "NodesCommand"
              [] name = S_partitions -> "PartitionsCommand"
              [] name = S_history -> "HistoryCommand"
              [] name = S_alias -> "AliasCommand"
              [] name = S_config -> "ConfigCommand"
              [] name \in {S_help, <<"h">>} -> "HelpCommand"
              [] name \in {S_exit, S_quit} -> "ExitCommand"]

\* The fixed toolchain allow-list of executeSystemCommand.
slurmCommands ==
    { <<"s", "r", "u", "n">>,
      <<"s", "b", "a", "t", "c", "h">>,
      <<"s", "c", "a", "n", "c", "e", "l">>,
      S_squeue,
      <<"s", "i", "n", "f", "o">>,
      <<"s", "a", "c", "c", "t">>,
      <<"s", "c", "o", "n", "t", "r", "o", "l">>,
      <<"s", "s", "t", "a", "t">>,
      <<"s", "p", "r", "i", "o">>,
      <<"s", "s", "h", "a", "r", "e">>,
      <<"s", "r", "e", "p", "o", "r", "t">>,
      <<"s", "a", "l", "l", "o", "c">>,
      <<"s", "a", "t", "t", "a", "c", "h">>,
      <<"s", "a", "c", "c", "t", "m", "g", "r">> }

\* The captured path of executeSystemCommand.
Captured(child) ==
    LET r == ClientExecute(child)
    IN  IF r.err THEN Outcome("captured", TRUE, <<>>, TRUE, FALSE, NoAlias)
        ELSE Outcome("captured", FALSE,
                     PrintIfAny("stdout", r.Output) \o PrintIfAny("stderr", r.Error),
                     TRUE, FALSE, NoAlias)

\* The interactive path of executeSystemCommand.
Interactive(child) ==
    Outcome("interactive", ExecuteInteractive(child), <<>>, TRUE, FALSE, NoAlias)

\* Registry.executeSystemCommand
executeSystemCommand(cmd, child) ==
    IF cmd.Name \in slurmCommands THEN Captured(child) ELSE Interactive(child)

\* A variant of RegistryExecute that looks at the allow-list before the registry.
RegistryExecuteAllowListFirst(reg, cmd, child) ==
    IF cmd.Name \in slurmCommands THEN Captured(child)
    ELSE IF cmd.Name \in DOMAIN reg THEN HandlerExecute(reg[cmd.Name], cmd, child)
    ELSE Interactive(child)
\* Registry.Execute
RegistryExecute(reg, cmd, child) ==
    IF cmd.Name \notin DOMAIN reg THEN executeSystemCommand(cmd, child)
    ELSE HandlerExecute(reg[cmd.Name], cmd, child)

-----------------------------------------------------------------------------
(* The history manager as a state machine: any sequence of Add, Save, Load and *)
(* Clear on one History, and Load on a fresh History of the same file.         *)

RawCommands ==
    { <<>>, <<"a">>, <<" ", "a", "\t">>, <<"b">>, <<"a", "|", "b">>,
      <<"a", "\n", "b">>, <<Big>> }

\* What the clock gives one call: the instant time.Now() returns and the duration measured.
Clock ==
    { [now |-> [sec |-> 7, nsec |-> 5], duration |-> 15],
      [now |-> [sec |-> 12, nsec |-> 0], duration |-> 0] }

MaxSizes == (-1)..MaxSizeBound

\* lastOp: the operation, the command it was given, whether Add appended, the error
\* returned, and whether the operation before it was an Add of the same trimmed text.
Op(op, command, appended, err, twice) ==
    [op |-> op, command |-> command, appended |-> appended, err |-> err, twice |-> twice]

NoOp == Op("none", <<>>, FALSE, FALSE, FALSE)

NotLoaded == [done |-> FALSE, entries |-> <<>>, err |-> FALSE]

\* How one input line was processed: the trimmed line, the step that ended the
\* processing ("blank", "parse", "validate", "alias", "dispatch"), the command
\* dispatched, the dispatch path, the error of the dispatch, what the shell echoed
\* of the child's streams, the child program run, the success recorded, and
\* whether the newest history entry already had the line as its command.
Processed(line, stage, cmd, path, err, echo, child, success, repeat) ==
    [line |-> line, stage |-> stage, cmd |-> cmd, path |-> path, err |-> err, echo |-> echo,
     child |-> child, success |-> success, repeat |-> repeat]

NoLine == Processed(<<>>, "none", NoCommand, "none", FALSE, <<>>, NoChild, FALSE, FALSE)

\* No function of the parser applied on its own.
NoInput == <<>>
NoOutput == [op |-> "none"]

\* No shell: only a History.
NoShell ==
    /\ pc = "idle"
    /\ running = FALSE
    /\ aliases = EmptyMap
    /\ registry = EmptyRegistry
    /\ last = NoLine
    /\ nlines = 0
    /\ pin = NoInput
    /\ pout = NoOutput

\* NewHistory(maxSize), before the history file exists
HInit ==
    /\ entries = <<>>
    /\ maxSize \in MaxSizes
    /\ panicked = FALSE
    /\ file = NoFile
    /\ nops = 0
    /\ accepted = <<>>
    /\ lastOp = NoOp
    /\ savedLog = <<>>
    /\ fresh = NotLoaded
    /\ NoShell

Live == ~panicked /\ nops < MaxOps

\* h.Add(command, success, duration) at instant now
HAdd(command, success, duration, now) ==
    LET r == Add(entries, maxSize, command, success, duration, now)
    IN  /\ Live
        /\ entries' = r.entries
        /\ panicked' = r.panic
        /\ accepted' = IF r.appended THEN Append(accepted, TrimSpace(command))
                       ELSE accepted
        /\ lastOp' = Op("Add", command, r.appended, FALSE,
                         /\ lastOp.op = "Add"
                         /\ TrimSpace(command) # <<>>
                         /\ TrimSpace(lastOp.command) = TrimSpace(command))
        /\ nops' = nops + 1
        /\ UNCHANGED <<maxSize, file, savedLog, fresh>>
        /\ UNCHANGED <<svars, pvars>>

\* h.Save()
HSave ==
    /\ Live
    /\ file' = FileOf(SaveText(entries))
    /\ savedLog' = entries
    /\ fresh' = NotLoaded
    /\ lastOp' = Op("Save", <<>>, FALSE, FALSE, FALSE)
    /\ nops' = nops + 1
    /\ UNCHANGED <<entries, maxSize, panicked, accepted>>
    /\ UNCHANGED <<svars, pvars>>

\* h.Load()
HLoad ==
    LET r == Load(entries, maxSize, file)
    IN  /\ Live
        /\ entries' = r.entries
        /\ panicked' = r.panic
        /\ accepted' = [i \in 1..Len(r.entries) |-> r.entries[i].Command]
        /\ lastOp' = Op("Load", <<>>, FALSE, r.err, FALSE)
        /\ nops' = nops + 1
        /\ UNCHANGED <<maxSize, file, savedLog, fresh>>
        /\ UNCHANGED <<svars, pvars>>

\* h.Clear()
HClear ==
    /\ Live
    /\ entries' = <<>>
    /\ accepted' = <<>>
    /\ lastOp' = Op("Clear", <<>>, FALSE, FALSE, FALSE)
    /\ nops' = nops + 1
    /\ UNCHANGED <<maxSize, panicked, file, savedLog, fresh>>
    /\ UNCHANGED <<svars, pvars>>

\* NewHistory(maxSize).Load() on the file Save wrote
HLoadFresh ==
    LET r == Load(<<>>, maxSize, file)
    IN  /\ Live
        /\ lastOp.op = "Save"
        /\ fresh' = [done |-> TRUE, entries |-> r.entries, err |-> r.err]
        /\ panicked' = r.panic
        /\ lastOp' = Op("LoadFresh", <<>>, FALSE, r.err, FALSE)
        /\ nops' = nops + 1
        /\ UNCHANGED <<entries, maxSize, file, accepted, savedLog>>
        /\ UNCHANGED <<svars, pvars>>

HNext ==
    \/ \E c \in RawCommands, s \in BOOLEAN, k \in Clock : HAdd(c, s, k.duration, k.now)
    \/ HSave
    \/ HLoad
    \/ HClear
    \/ HLoadFresh

SpecHistory == HInit /\ [][HNext]_vars

\* NewHistory(maxSize) without a history file, or with the file an earlier run
\* has left: that run called Add("a") and Add("a\nb") and saved the log, so that
\* the file holds two lines with the command a and the line b.
ReloadInit ==
    /\ entries = <<>>
    /\ maxSize \in MaxSizes
    /\ panicked = FALSE
    /\ file \in { NoFile,
                  FileOf(SaveText(<< HistoryEntry(<<"a">>, [sec |-> 3, nsec |-> 0], TRUE, 4),
                                     HistoryEntry(<<"a", "\n", "b">>, [sec |-> 5, nsec |-> 0], FALSE, 0) >>)) }
    /\ nops = 0
    /\ accepted = <<>>
    /\ lastOp = NoOp
    /\ savedLog = <<>>
    /\ fresh = NotLoaded
    /\ NoShell

\* The calls made after it: Add of a blank text, of the command of the file, of
\* that command between spaces and of another command; Save, Load and Clear.
ReloadNext ==
    \/ \E c \in { <<>>, <<"a">>, <<" ", "a", "\t">>, <<"b">> }, s \in BOOLEAN, k \in Clock :
          HAdd(c, s, k.duration, k.now)
    \/ HSave
    \/ HLoad
    \/ HClear

SpecReload == ReloadInit /\ [][ReloadNext]_vars

-----------------------------------------------------------------------------
(* Properties of the history manager, checked under SpecHistory and SpecReload. *)

Commands(es) == [i \in 1..Len(es) |-> es[i].Command]

LastN(s, n) == SubSeq(s, Len(s) - n + 1, Len(s))

\* The newest entry of log es has command c.
NewestIs(es, c) == Len(es) > 0 /\ es[Len(es)].Command = c

\* Log es ends with exactly one entry of command c.
EndsWithOne(es, c) == NewestIs(es, c) /\ (Len(es) >= 2 => es[Len(es) - 1].Command # c)

\* This step is an Add call.
AddStep == nops' = nops + 1 /\ lastOp'.op = "Add"

\* C1: for every maxSize >= 0, after every Add, Load, Save and Clear the
\* in-memory log holds at most maxSize entries.
C1_LogNeverExceedsMaxSize == maxSize >= 0 => Len(entries) <= maxSize

\* An Add appended to a full log, which still holds maxSize >= 1 entries.
C1_Witness ==
    /\ maxSize >= 1
    /\ lastOp.op = "Add" /\ lastOp.appended
    /\ Len(accepted) > maxSize
    /\ Len(entries) = maxSize

\* An Add whose trimmed command is empty or is the newest entry's command
\* leaves the log as it was.
DroppedAddLeavesLog ==
    (AddStep /\ (TrimSpace(lastOp'.command) = <<>> \/ NewestIs(entries, TrimSpace(lastOp'.command))))
        => entries' = entries

\* C2, as claimed: a blank or repeated Add leaves the log exactly unchanged, and two
\* consecutive Adds of the same trimmed text yield exactly one entry.
C2_AsClaimed ==
    /\ [][DroppedAddLeavesLog]_vars
    /\ []((lastOp.op = "Add" /\ lastOp.twice) => EndsWithOne(entries, TrimSpace(lastOp.command)))

\* Log es holds two entries with the same command next to each other.
AdjacentRepeat(es) == \E i \in 1..(Len(es) - 1) : es[i].Command = es[i + 1].Command

\* C2, amended: a blank or repeated Add leaves the log exactly unchanged. When
\* maxSize >= 1, the second of two consecutive Adds of the same trimmed text
\* appends nothing and that text is the command of the newest entry; if the
\* first of the two appended, the log ends with exactly one entry of that text;
\* Add never puts two entries with the same command next to each other, so the
\* log ends with more than one only when Load had read them from the file. With
\* maxSize = 0 the two Adds leave the log empty.
C2_DroppedAddIsNoOp ==
    /\ [][DroppedAddLeavesLog]_vars
    /\ [][ (AddStep /\ maxSize >= 1 /\ lastOp'.twice) =>
              /\ ~lastOp'.appended /\ entries' = entries
              /\ NewestIs(entries', TrimSpace(lastOp'.command))
              /\ lastOp.appended => EndsWithOne(entries', TrimSpace(lastOp'.command)) ]_vars
    /\ [][ (AddStep /\ ~AdjacentRepeat(entries)) => ~AdjacentRepeat(entries') ]_vars
    /\ []((lastOp.op = "Add" /\ lastOp.twice /\ maxSize = 0) => entries = <<>>)

\* The second of two Adds of one text was dropped; the log ends with that text once.
C2_Witness ==
    /\ lastOp.op = "Add" /\ lastOp.twice /\ ~lastOp.appended
    /\ maxSize >= 1
    /\ EndsWithOne(entries, TrimSpace(lastOp.command))

\* Load has read two lines with the command a, and two Adds of a were dropped:
\* the log ends with two entries of that text, as Load left them.
LoadedRepeatKept ==
    /\ lastOp.op = "Add" /\ lastOp.twice /\ ~lastOp.appended
    /\ maxSize = 2 /\ Len(entries) = 2
    /\ NewestIs(entries, <<"a">>) /\ entries[1].Command = <<"a">>
    /\ entries[2].Timestamp = [sec |-> 5, nsec |-> 0] /\ ~entries[2].Success

\* C3: eviction is FIFO. With maxSize >= 1: an Add that appends to a full log removes
\* exactly the oldest entry, keeps the others in order and puts the new entry last;
\* the log is always the last min(n, maxSize) of the n accepted entries, in order;
\* and a command is appended whenever it is non-blank and differs from the newest
\* entry's, also when an older entry has the same command.
C3_FifoEviction ==
    /\ [][(AddStep /\ maxSize >= 1 /\ TrimSpace(lastOp'.command) # <<>>
             /\ ~NewestIs(entries, TrimSpace(lastOp'.command)))
          => /\ NewestIs(entries', TrimSpace(lastOp'.command))
             /\ accepted' = Append(accepted, TrimSpace(lastOp'.command))
             /\ IF Len(entries) = maxSize
                THEN SubSeq(entries', 1, maxSize - 1) = Tail(entries)
                ELSE SubSeq(entries', 1, Len(entries)) = entries
             /\ Len(entries') = Min(Len(entries) + 1, maxSize)]_vars
    /\ [](maxSize >= 1
            => Commands(entries) = LastN(accepted, Min(Len(accepted), maxSize)))

\* A command equal to an older, non-adjacent entry was appended to a full log and
\* the oldest entry was evicted.
C3_Witness ==
    /\ maxSize >= 2
    /\ lastOp.op = "Add" /\ lastOp.appended
    /\ Len(accepted) > maxSize
    /\ Len(entries) = maxSize
    /\ accepted[Len(accepted)] = accepted[Len(accepted) - 2]

\* The log as Load rebuilds it: timestamps at second precision.
AtSecondPrecision(es) ==
    [i \in 1..Len(es) |-> [es[i] EXCEPT !.Timestamp = TimeUnix(Unix(es[i].Timestamp))]]

HasNewline(s) == \E i \in 1..Len(s) : s[i] = "\n"

NoNewlineIn(es) == \A i \in 1..Len(es) : ~HasNewline(es[i].Command)

\* C4: for every log built by Add (maxSize >= 0) from commands without a newline, Save
\* followed by Load on a fresh History reproduces the log, timestamps at second
\* precision.
C4_SaveLoadRoundTrip ==
    (fresh.done /\ maxSize >= 0 /\ NoNewlineIn(savedLog))
        => (~fresh.err /\ fresh.entries = AtSecondPrecision(savedLog))

\* The round trip does hold for logs whose encoded lines fit the scanner's buffer.
LinesFit(es) == \A i \in 1..Len(es) : ~TooLong(FormatLine(es[i]))

RoundTripOfShortLines ==
    (fresh.done /\ maxSize >= 0 /\ NoNewlineIn(savedLog) /\ LinesFit(savedLog))
        => (~fresh.err /\ fresh.entries = AtSecondPrecision(savedLog))

RoundTripWitness ==
    /\ fresh.done /\ Len(savedLog) >= 2 /\ NoNewlineIn(savedLog) /\ LinesFit(savedLog)
    /\ \E i \in 1..Len(savedLog) : \E j \in 1..Len(savedLog[i].Command) :
           savedLog[i].Command[j] = "|"

-----------------------------------------------------------------------------
(* The shell: Shell.Run and Shell.executeCommand. *)

MaxLines == 2

LINE_QOPT == <<"q", " ", "-", "u", " ", "b", "o", "b", " ", "a", "l">>
LINE_B_ARG == <<"b", " ", "a", "l">>
LINE_LONG == S_ls \o <<" ", Long>>

\* config.Default().Aliases
DefaultAliases ==
    [name \in {S_q, <<"j">>, <<"n">>, <<"h">>, <<"s", "t">>} |->
        CASE name = S_q -> S_queue
          [] name = <<"j">> -> S_jobs
          [] name = <<"n">> -> S_nodes
          [] name = <<"h">> -> S_help
          [] name = <<"s", "t">> -> S_status]

\* The default aliases and, from the configuration file, an alias of itself
\* (a -> "a x") and two aliases of each other (b -> "c", c -> "b").
LoopingAliases ==
    Put(Put(Put(DefaultAliases, <<"a">>, <<"a", " ", "x">>), <<"b">>, <<"c">>), <<"c">>, <<"b">>)

\* The lines typed: an unclosed quote; -N with -w; an alias whose argument is a
\* quote character; a handler called without its argument; an allow-list program;
\* another program; exit; a program with an argument as long as the buffer of
\* the writer of History.Save; an alias of a built-in; a blank line; an alias
\* with an option and an argument; a name that may be an alias of itself; a name
\* that may be one of two aliases of each other, with an argument; an alias with
\* a quoted argument that holds spaces and an option.
InputLines ==
    { LINE_QUOTE, LINE_NW,
      LINE_ALIASQ, S_status, S_squeue, S_ls, S_exit, LINE_LONG, S_q,
      <<" ">>, LINE_QOPT, <<"a">>, LINE_B_ARG,
      <<"q", " ", "\"", "x", " ", "-", "t", " ", "z", "\"">> }

\* The clock of one line: time.Now() at the Add and time.Since(startTime).
ShellClock == { [now |-> [sec |-> 7, nsec |-> 5], duration |-> 15] }

\* The history file found at startup.
StartFiles ==
    { NoFile,
      FileOf(SaveText(<<HistoryEntry(S_ls, [sec |-> 3, nsec |-> 0], TRUE, 4)>>)) }

\* shell.New(): the state before Run, with the aliases of the configuration
\* file.
SInit ==
    /\ entries = <<>>
    /\ maxSize \in MaxSizes
    /\ panicked = FALSE
    /\ file \in StartFiles
    /\ nops = 0
    /\ accepted = <<>>
    /\ lastOp = NoOp
    /\ savedLog = <<>>
    /\ fresh = NotLoaded
    /\ pc = "new"
    /\ running = FALSE
    /\ aliases = LoopingAliases
    /\ registry = EmptyRegistry
    /\ last = NoLine
    /\ nlines = 0
    /\ pin = NoInput
    /\ pout = NoOutput

\* A variant of LineSuccess that records every line as a success.
LineSuccessAlways(stage, err) == TRUE
\* The success flag executeCommand hands to History.Add.
LineSuccess(stage, err) == stage = "dispatch" /\ ~err

\* The text the alias of cmd's name expands to, with cmd's arguments.
AliasText(cmd, als) == als[cmd.Name] \o <<" ">> \o Join(cmd.Args, <<" ">>)

\* Two variants of ExpandAlias: one carries the options of the original command
\* over, one expands the name of the expansion once more.
ExpandAliasKeepsOptions(cmd, als) ==
    LET ap == ParseCommand(AliasText(cmd, als))
        kept == [k \in (DOMAIN ap.cmd.Options) \cup (DOMAIN cmd.Options) |->
                    IF k \in DOMAIN cmd.Options THEN cmd.Options[k] ELSE ap.cmd.Options[k]]
    IN  IF ap.ok THEN [ap EXCEPT !.cmd.Options = kept] ELSE ap
ExpandAliasTwice(cmd, als) ==
    LET ap == ParseCommand(AliasText(cmd, als))
    IN  IF ap.ok /\ ap.cmd.Name \in DOMAIN als THEN ParseCommand(AliasText(ap.cmd, als)) ELSE ap
\* "Replace command with alias": the re-parse of the expansion and the arguments.
ExpandAlias(cmd, als) == ParseCommand(AliasText(cmd, als))

\* A variant of Prepare whose validation path records the line and does not
\* return: the command goes on to the alias expansion and the dispatch.
PrepareWithoutReturn(line, als) ==
    LET p == ParseCommand(line)
        aliased == p.cmd.Name \in DOMAIN als
        ap == ExpandAlias(p.cmd, als)
        before == IF ValidateCommand(p.cmd) # "" THEN <<LineSuccess("validate", TRUE)>> ELSE <<>>
    IN  IF ~p.ok THEN [stage |-> "parse", cmd |-> NoCommand, adds |-> <<LineSuccess("parse", TRUE)>>]
        ELSE IF aliased /\ ~ap.ok
        THEN [stage |-> "alias", cmd |-> NoCommand, adds |-> before \o <<LineSuccess("alias", TRUE)>>]
        ELSE [stage |-> "dispatch", cmd |-> IF aliased THEN ap.cmd ELSE p.cmd, adds |-> before]
\* Shell.executeCommand before the dispatch: the line is parsed, the command is
\* validated and an alias is expanded. Each of the three error paths calls
\* History.Add with success = false and returns; the path to the dispatch calls
\* nothing. The result is the stage at which the processing stops, the command
\* that goes to the dispatch, and the success flags of the History.Add calls
\* made, in order.
Prepare(line, als) ==
    LET p == ParseCommand(line)
        aliased == p.cmd.Name \in DOMAIN als
        ap == ExpandAlias(p.cmd, als)
    IN  IF ~p.ok THEN [stage |-> "parse", cmd |-> NoCommand, adds |-> <<LineSuccess("parse", TRUE)>>]
        ELSE IF ValidateCommand(p.cmd) # ""
        THEN [stage |-> "validate", cmd |-> NoCommand, adds |-> <<LineSuccess("validate", TRUE)>>]
        ELSE IF aliased /\ ~ap.ok
        THEN [stage |-> "alias", cmd |-> NoCommand, adds |-> <<LineSuccess("alias", TRUE)>>]
        ELSE [stage |-> "dispatch", cmd |-> IF aliased THEN ap.cmd ELSE p.cmd, adds |-> <<>>]

\* Shell.executeCommand from the return of the dispatch on: History.Add is
\* called with the outcome. adds are the success flags of all the History.Add
\* calls of the line, in order.
AfterDispatch(prep, out) ==
    [stage |-> prep.stage, cmd |-> prep.cmd, out |-> out,
     adds |-> Append(prep.adds, LineSuccess(prep.stage, out.err))]

\* Shell.executeCommand up to its return, for a prepared line: a line that an
\* error path has ended is not dispatched; the other is dispatched and recorded
\* when the dispatch has returned.
executeCommand(prep, reg, child) ==
    IF prep.stage = "dispatch" THEN AfterDispatch(prep, RegistryExecute(reg, prep.cmd, child))
    ELSE [stage |-> prep.stage, cmd |-> prep.cmd,
          out |-> Outcome("none", FALSE, <<>>, FALSE, FALSE, NoAlias), adds |-> prep.adds]

\* What the History.Add calls of one line, with the success flags adds, do to
\* the log: the log after them, whether the last call appended and whether one
\* panicked (no call follows a panic), and the number of calls made.
RECURSIVE RecordLine(_, _, _, _, _, _)
RecordLine(es, m, line, adds, duration, now) ==
    IF adds = <<>> THEN [entries |-> es, appended |-> FALSE, panic |-> FALSE, calls |-> 0]
    ELSE LET first == Add(es, m, line, Head(adds), duration, now)
             rest == RecordLine(first.entries, m, line, Tail(adds), duration, now)
         IN  IF first.panic \/ Tail(adds) = <<>>
             THEN [entries |-> first.entries, appended |-> first.appended,
                   panic |-> first.panic, calls |-> 1]
             ELSE [rest EXCEPT !.calls = @ + 1]

\* A variant of OnSignal that saves the history before the exit.
OnSignalSaves(es, f) == FileOf(SaveText(es))
\* The history file after the signal goroutine of main: it prints and exits.
OnSignal(es, f) == f

\* The History.Add calls of one line, made at the instant of the clock, take
\* the log and the record of the last call to their new values.
Recorded(line, adds, clock) ==
    LET a == RecordLine(entries, maxSize, line, adds, clock.duration, clock.now)
    IN  /\ entries' = a.entries
        /\ panicked' = a.panic
        /\ nops' = nops + a.calls
        /\ lastOp' = IF a.calls = 0 THEN lastOp ELSE Op("Add", line, a.appended, FALSE, FALSE)

\* The prologue of Shell.Run up to the wait of showWelcome: the history is
\* loaded and the welcome text printed, and GetClusterInfo waits for scontrol.
\* Run is now the last call: pin and pout are reset.
ShellStart ==
    LET r == Load(entries, maxSize, file)
    IN  /\ pc = "new"
        /\ entries' = r.entries
        /\ panicked' = r.panic
        /\ pc' = IF r.panic THEN "panic" ELSE "welcome"
        /\ UNCHANGED <<maxSize, file, running, aliases, registry, last, nlines>>
        /\ pin' = NoInput /\ pout' = NoOutput
        /\ UNCHANGED gvars

\* GetClusterInfo has returned (Client.Execute waits for scontrol for 30 s at
\* most): the built-ins are registered and running is set.
ShellWelcome ==
    /\ pc = "welcome"
    /\ registry' = Builtins
    /\ running' = TRUE
    /\ pc' = "loop"
    /\ UNCHANGED <<entries, maxSize, panicked, file, aliases, last, nlines>>
    /\ UNCHANGED <<gvars, pvars>>

\* One iteration of the loop of Shell.Run on a line that Scan delivered; a line
\* that starts no program has no child.
ShellLine(raw, clock) ==
    LET line == TrimSpace(raw)
        prep == Prepare(line, aliases)
        starts == executeCommand(prep, registry, NoChild).out.ran
    IN  /\ pc = "loop" /\ running /\ nlines < MaxLines
        /\ nlines' = nlines + 1
        /\ IF line = <<>>
           THEN /\ last' = Processed(line, "blank", NoCommand, "none", FALSE, <<>>, NoChild, FALSE, FALSE)
                /\ UNCHANGED <<entries, panicked, pc, running, aliases, nops, lastOp>>
           ELSE \E child \in (IF starts THEN Children ELSE {NoChild}) :
                LET x == executeCommand(prep, registry, child)
                IN  IF x.stage = "dispatch" /\ NeverReturns(x.out.path, child)
                    THEN /\ last' = Processed(line, x.stage, x.cmd, x.out.path, FALSE, <<>>, child, FALSE,
                                              NewestIs(entries, line))
                         /\ pc' = "blocked"
                         /\ Recorded(line, prep.adds, clock)
                         /\ UNCHANGED <<running, aliases>>
                    ELSE /\ last' = Processed(line, x.stage, x.cmd, x.out.path, x.out.err, x.out.echo,
                                              child, x.adds[Len(x.adds)], NewestIs(entries, line))
                         /\ running' = ~x.out.stop
                         /\ aliases' = IF x.out.setAlias # NoAlias
                                       THEN Put(aliases, x.out.setAlias[1], x.out.setAlias[2])
                                       ELSE aliases
                         /\ pc' = IF RecordLine(entries, maxSize, line, x.adds, clock.duration, clock.now).panic
                                  THEN "panic" ELSE "loop"
                         /\ Recorded(line, x.adds, clock)
        /\ UNCHANGED <<maxSize, file, registry>>
        /\ UNCHANGED <<accepted, savedLog, fresh, pvars>>

\* The signal reaches the goroutine of main while executeCommand waits for the
\* program that the dispatch of the line has started: the process exits before
\* the dispatch returns, and History.Add is not called for the line.
ShellSignalDuringDispatch(raw) ==
    LET line == TrimSpace(raw)
        prep == Prepare(line, aliases)
        starts == executeCommand(prep, registry, NoChild).out.ran
    IN  /\ pc = "loop" /\ running /\ nlines < MaxLines
        /\ line # <<>>
        /\ \E child \in (IF starts THEN Children ELSE {NoChild}) :
              LET x == executeCommand(prep, registry, child)
              IN  /\ child.started
                  /\ x.stage = "dispatch" /\ x.out.ran
                  /\ last' = Processed(line, x.stage, x.cmd, x.out.path, FALSE, <<>>, child, FALSE,
                                       NewestIs(entries, line))
        /\ \E clock \in ShellClock : Recorded(line, prep.adds, clock)
        /\ nlines' = nlines + 1
        /\ pc' = "exited"
        /\ UNCHANGED <<maxSize, file, running, aliases, registry>>
        /\ UNCHANGED <<accepted, savedLog, fresh, pvars>>

\* The commands Shell.ExecuteDirectCommand is called with: a program, exit, and
\* -N with -w.
DirectCommands == { S_ls, S_exit, LINE_NW }

\* Shell.RemoveAlias(name), called on the shell before Run or between two
\* lines: the alias is deleted from the table.
RemoveAlias(name) ==
    /\ pc \in {"new", "loop"}
    /\ aliases' = [x \in (DOMAIN aliases) \ {name} |-> aliases[x]]
    /\ UNCHANGED <<pc, running, registry, last, nlines>>
    /\ UNCHANGED <<hvars, gvars, pvars>>

\* Shell.ExecuteDirectCommand(command), called before Run by the program that
\* made the shell (the method is not in the ShellInterface): the command is
\* parsed, validated and dispatched; no alias is expanded and History.Add is
\* not called. The step is the call up to its return (a signal in the wait for
\* the program is the step SignalDuringDirectCommand). pin and pout keep the
\* call and its result until Run is called.
ExecuteDirectCommand(command) ==
    LET p == ParseCommand(command)
        valid == p.ok /\ ValidateCommand(p.cmd) = ""
        starts == valid /\ RegistryExecute(registry, p.cmd, NoChild).ran
        result(stage, path, err, child) ==
            [op |-> "ExecuteDirectCommand", stage |-> stage, path |-> path, err |-> err,
             child |-> child]
    IN  /\ pc = "new"
        /\ pin' = command
        /\ \E child \in (IF starts THEN Children ELSE {NoChild}) :
              LET out == RegistryExecute(registry, p.cmd, child)
              IN  IF ~valid
                  THEN /\ pout' = result(IF p.ok THEN "validate" ELSE "parse", "none", TRUE, NoChild)
                       /\ UNCHANGED <<pc, running, aliases>>
                  ELSE IF NeverReturns(out.path, child)
                  THEN /\ pout' = result("dispatch", out.path, FALSE, child)
                       /\ pc' = "blocked"
                       /\ UNCHANGED <<running, aliases>>
                  ELSE /\ pout' = result("dispatch", out.path, out.err, child)
                       /\ running' = (running /\ ~out.stop)
                       /\ aliases' = IF out.setAlias # NoAlias
                                     THEN Put(aliases, out.setAlias[1], out.setAlias[2])
                                     ELSE aliases
                       /\ pc' = pc
        /\ UNCHANGED <<registry, last, nlines>>
        /\ UNCHANGED <<hvars, gvars>>

\* The signal reaches the goroutine of main while Shell.ExecuteDirectCommand
\* waits for the program that its dispatch has started: the process exits
\* before the call returns.
SignalDuringDirectCommand(command) ==
    LET p == ParseCommand(command)
    IN  /\ pc = "new"
        /\ p.ok /\ ValidateCommand(p.cmd) = ""
        /\ pin' = command
        /\ \E child \in Children :
              LET out == RegistryExecute(registry, p.cmd, child)
              IN  /\ child.started /\ out.ran
                  /\ pout' = [op |-> "ExecuteDirectCommand", stage |-> "dispatch",
                              path |-> out.path, err |-> FALSE, child |-> child]
        /\ pc' = "exited"
        /\ UNCHANGED <<running, aliases, registry, last, nlines>>
        /\ UNCHANGED <<hvars, gvars>>

\* Scan returns false (end of the stream, or a read error such as a line too
\* long for the scanner): the loop ends and the history is saved.
ShellEndOfInput ==
    /\ pc = "loop" /\ running
    /\ file' = FileOf(SaveText(entries))
    /\ pc' = "done"
    /\ UNCHANGED <<entries, maxSize, panicked, running, aliases, registry, last, nlines>>
    /\ UNCHANGED <<gvars, pvars>>

\* Stop was called: the loop condition fails and the history is saved.
ShellStopped ==
    /\ pc = "loop" /\ ~running
    /\ file' = FileOf(SaveText(entries))
    /\ pc' = "done"
    /\ UNCHANGED <<entries, maxSize, panicked, running, aliases, registry, last, nlines>>
    /\ UNCHANGED <<gvars, pvars>>

\* An interrupt or termination signal reaches the goroutine of main before the
\* prologue, while showWelcome waits, between two lines, or while a program that
\* does not exit runs: the process exits.
ShellSignal ==
    /\ pc \in {"new", "welcome", "loop", "blocked"}
    /\ file' = OnSignal(entries, file)
    /\ pc' = "exited"
    /\ UNCHANGED <<entries, maxSize, panicked, running, aliases, registry, last, nlines>>
    /\ UNCHANGED <<gvars, pvars>>

\* The file that holds the first k bytes of a text: the characters that fit
\* and, when the cut falls inside a character of many bytes, the number of its
\* bytes written (part).
RECURSIVE CutAt(_, _, _)
CutAt(text, k, done) ==
    IF text = <<>> \/ k = 0 THEN FileOf(done)
    ELSE IF ByteWidth(Head(text)) > k THEN [exists |-> TRUE, text |-> done, part |-> k]
    ELSE CutAt(Tail(text), k - ByteWidth(Head(text)), Append(done, Head(text)))

\* bufio.Writer.WriteString since Go 1.18, for lines of the byte lengths ls, with
\* w bytes written to the file of the n bytes taken so far: the numbers of bytes
\* the file holds after each write. A line that fits the buffer is copied to it;
\* a line that does not is written straight to the file when the buffer is
\* empty; otherwise the buffer is filled and written, and the rest of the line
\* is written straight to the file when it is larger than the buffer.
RECURSIVE WrittenOut(_, _, _)
WrittenOut(ls, w, n) ==
    IF ls = <<>> THEN {}
    ELSE LET end == n + Head(ls)
         IN  IF Head(ls) <= defaultBufSize - (n - w) THEN WrittenOut(Tail(ls), w, end)
             ELSE IF n = w THEN {end} \cup WrittenOut(Tail(ls), end, end)
             ELSE IF end - (w + defaultBufSize) > defaultBufSize
             THEN {w + defaultBufSize, end} \cup WrittenOut(Tail(ls), end, end)
             ELSE {w + defaultBufSize} \cup WrittenOut(Tail(ls), w + defaultBufSize, end)

\* What an os.Exit between the os.Create of History.Save and its deferred Flush
\* leaves in the file: os.Create has truncated it, and it holds what the buffered
\* writer has written out by then. That is nothing for a text that fits the
\* buffer. For a longer text it depends on the Go release the program is built
\* with: since Go 1.18 WriteString hands a line larger than the buffer to the
\* file (WrittenOut); before, it writes whenever the buffer is full, so that the
\* file holds a multiple of the buffer size.
SaveInterrupted(es) ==
    LET text == SaveText(es)
        ls == [i \in 1..Len(es) |-> ByteLen(FormatLine(es[i]))]
        full == { defaultBufSize * k : k \in 0..((ByteLen(text) - 1) \div defaultBufSize) }
    IN  IF ByteLen(text) <= defaultBufSize THEN { FileOf(<<>>) }
        ELSE { CutAt(text, k, <<>>) : k \in {0} \cup WrittenOut(ls, 0, 0) \cup full }

\* The loop has ended and Run is in History.Save, past os.Create and before the
\* deferred Flush, when the signal reaches the goroutine of main: the process
\* exits inside Save.
ShellSignalDuringSave ==
    /\ pc = "loop"
    /\ \E f \in SaveInterrupted(entries) : file' = f
    /\ pc' = "interrupted"
    /\ UNCHANGED <<entries, maxSize, panicked, running, aliases, registry, last, nlines>>
    /\ UNCHANGED <<gvars, pvars>>

SNext ==
    \/ ShellStart
    \/ ShellWelcome
    \/ \E raw \in InputLines, clock \in ShellClock : ShellLine(raw, clock)
    \/ \E raw \in InputLines : ShellSignalDuringDispatch(raw)
    \/ \E name \in {S_q} : RemoveAlias(name)
    \/ \E command \in DirectCommands : ExecuteDirectCommand(command)
    \/ \E command \in DirectCommands : SignalDuringDirectCommand(command)
    \/ ShellEndOfInput
    \/ ShellStopped
    \/ ShellSignal
    \/ ShellSignalDuringSave

SpecShell == SInit /\ [][SNext]_vars

\* After Shell.RemoveAlias("q") the line q '"' is not expanded: it is dispatched
\* to the handler registered as q and recorded as a success.
RemovedAliasNotExpanded ==
    /\ pc = "loop" /\ S_q \notin DOMAIN aliases
    /\ last.line = LINE_ALIASQ /\ last.stage = "dispatch" /\ last.cmd.Name = S_q
    /\ last.path = "handler" /\ last.success
    /\ maxSize >= 1 => NewestIs(entries, LINE_ALIASQ)

\* A signal ended the process while Shell.ExecuteDirectCommand("ls") waited for
\* the program.
DirectCommandInterrupted ==
    /\ pc = "exited" /\ nlines = 0
    /\ pin = S_ls /\ pout.op = "ExecuteDirectCommand" /\ pout.child.started

\* Shell.ExecuteDirectCommand("ls") has run the program and returned nil, and
\* History.Add was not called.
DirectCommandNotRecorded ==
    /\ pin = S_ls /\ pout.op = "ExecuteDirectCommand"
    /\ pout.stage = "dispatch" /\ pout.path = "interactive" /\ ~pout.err
    /\ pout.child.started /\ pout.child.exit = 0
    /\ nops = 0 /\ entries = <<>>

-----------------------------------------------------------------------------
(* The registry on its own: any sequence of Register and Execute. *)

RegistryNames == { S_squeue, S_status, S_ls }

RegistryKinds == { "QueueCommand", "StatusCommand", "HistoryCommand" }

RegistryCommands ==
    { Command(name, args, options) :
        name \in RegistryNames,
        args \in { <<>>, << <<"7">> >> },
        options \in { EmptyMap, Put(EmptyMap, OptN, <<"2">>) } }

\* NewRegistry(): no handler registered.
RInit ==
    /\ entries = <<>>
    /\ maxSize = 0
    /\ panicked = FALSE
    /\ file = NoFile
    /\ nops = 0
    /\ accepted = <<>>
    /\ lastOp = NoOp
    /\ savedLog = <<>>
    /\ fresh = NotLoaded
    /\ pc = "registry"
    /\ running = FALSE
    /\ aliases = EmptyMap
    /\ registry = EmptyRegistry
    /\ last = NoLine
    /\ nlines = 0
    /\ pin = NoInput
    /\ pout = NoOutput

\* Registry.Register(name, handler)
RRegister(name, kind) ==
    /\ pc \in {"registry", "executed"}
    /\ registry' = Register(registry, name, kind)
    /\ pc' = "registry"
    /\ UNCHANGED <<running, aliases, last, nlines>>
    /\ UNCHANGED <<hvars, gvars, pvars>>

\* Registry.Execute(cmd, shell)
RExecute(cmd, child) ==
    LET out == RegistryExecute(registry, cmd, child)
    IN  /\ pc \in {"registry", "executed"}
        /\ last' = Processed(<<>>, "dispatch", cmd, out.path, out.err, out.echo,
                             IF out.ran THEN child ELSE NoChild, ~out.err, FALSE)
        /\ pc' = IF NeverReturns(out.path, child) THEN "blocked" ELSE "executed"
        /\ UNCHANGED <<running, aliases, registry, nlines>>
        /\ UNCHANGED <<hvars, gvars, pvars>>

RNext ==
    \/ \E name \in RegistryNames, kind \in RegistryKinds : RRegister(name, kind)
    \/ \E cmd \in RegistryCommands, child \in Children : RExecute(cmd, child)

SpecRegistry == RInit /\ [][RNext]_vars

-----------------------------------------------------------------------------
(* Properties of the shell loop and of the dispatch. *)

\* The processing of a line failed: parse error, validation error, alias
\* re-parse error, or an error returned by the dispatch.
Failed(l) ==
    \/ l.stage \in {"parse", "validate", "alias"}
    \/ l.stage = "dispatch" /\ l.err

\* The dispatch of the last line, if any, has returned: the shell is between two
\* lines, past the loop, or stopped by the panic of the Add that follows.
Returned == pc \in {"loop", "done", "panic"}

\* A step of the loop that processed a non-blank line.
LineStep == pc = "loop" /\ nlines' = nlines + 1 /\ last'.stage \notin {"none", "blank"}

\* C5 as claimed: with maxSize >= 1, after every non-blank line whose processing
\* failed, the newest history entry has the trimmed line as its command and
\* success = false.
C5_AsClaimed ==
    (pc = "loop" /\ maxSize >= 1 /\ Failed(last))
        => /\ Len(entries) >= 1
           /\ entries[Len(entries)].Command = last.line
           /\ entries[Len(entries)].Success = FALSE

\* C5, amended: with maxSize >= 1, after every non-blank line whose processing
\* failed, the newest history entry has the trimmed line as its command; it has
\* success = false unless the newest entry before the line already had that
\* command, in which case the log is left as it was.
C5_FailedLineRecorded ==
    [][ (LineStep /\ maxSize >= 1 /\ Failed(last'))
            => IF NewestIs(entries, last'.line)
               THEN entries' = entries
               ELSE /\ Len(entries') >= 1
                    /\ entries'[Len(entries')].Command = last'.line
                    /\ entries'[Len(entries')].Success = FALSE
                    /\ Len(entries') = Min(Len(entries) + 1, maxSize) ]_vars

\* A failed line, not a repeat of the newest entry, has been recorded with success = false.
C5_Witness ==
    /\ pc = "loop" /\ maxSize >= 1
    /\ Failed(last) /\ ~last.repeat
    /\ Len(entries) >= 1
    /\ entries[Len(entries)].Command = last.line
    /\ entries[Len(entries)].Success = FALSE

\* C6: no per-line error stops the loop: after a line whose processing failed the
\* running flag is true and the loop is still reading; the loop is left only on
\* end of input or after Stop, with the history saved (a loop that waits for an
\* interactive program has not ended, and a signal ends the process, not the loop).
C6_ErrorsNeverStopTheLoop ==
    [][ /\ (LineStep /\ Failed(last')) => (running' /\ pc' = "loop")
        /\ (pc = "loop" /\ pc' # "loop") => pc' \in {"done", "blocked", "exited", "interrupted"} ]_vars

\* The same, for the history sizes for which Add does not panic.
C6_HoldsForNonNegativeSize ==
    [][ maxSize >= 0 =>
          /\ (LineStep /\ Failed(last')) => (running' /\ pc' = "loop")
          /\ (pc = "loop" /\ pc' # "loop") => pc' \in {"done", "blocked", "exited", "interrupted"} ]_vars

\* C7: when ValidateCommand fails for the command of a line, Registry.Execute is
\* not called (no handler and no external program runs) and nothing but the
\* history log changes.
C7_ValidationFailureOnlyTouchesHistory ==
    [][ (LineStep /\ last'.stage = "validate")
            => /\ last'.path = "none" /\ last'.child = NoChild /\ last'.echo = <<>>
               /\ UNCHANGED <<maxSize, file, panicked, pc, running, aliases, registry>> ]_vars

\* The same, for the history sizes for which Add does not panic.
C7_HoldsForNonNegativeSize ==
    [][ (LineStep /\ last'.stage = "validate" /\ maxSize >= 0)
            => /\ last'.path = "none" /\ last'.child = NoChild /\ last'.echo = <<>>
               /\ UNCHANGED <<maxSize, file, panicked, pc, running, aliases, registry>> ]_vars

\* The path the dispatch is to take for a name.
PathOf(reg, name) ==
    IF name \in DOMAIN reg THEN "handler"
    ELSE IF name \in slurmCommands THEN "captured"
    ELSE "interactive"

\* C8: Registry.Execute takes the one path its command's name selects: the handler
\* when the name is registered, allow-list name or not; else the captured path
\* when the name is on the allow-list; else the interactive path. Arguments,
\* options and the child's behaviour play no part.
C8_PathByNameAlone ==
    pc = "executed" => last.path = PathOf(registry, last.cmd.Name)

\* A registered allow-list name has been dispatched to its handler.
C8_Witness ==
    /\ pc = "executed"
    /\ last.cmd.Name \in slurmCommands
    /\ last.cmd.Name \in DOMAIN registry
    /\ last.path = "handler"
    /\ last.cmd.Args # <<>>

\* C9: on the interactive path, a child that starts and exits with a non-zero
\* status makes the dispatch return no error, and the line is recorded with
\* success = true.
C9_NonZeroExitIsNoError ==
    (/\ pc = "loop" /\ maxSize >= 1
     /\ last.path = "interactive" /\ last.child.started /\ last.child.exit # 0
     /\ ~last.repeat)
        => /\ ~last.err
           /\ entries[Len(entries)].Command = last.line
           /\ entries[Len(entries)].Success = TRUE

\* On the interactive path every failure of Run, a non-zero exit included, is
\* returned by the dispatch.
InteractiveReturnsRunError ==
    (Returned /\ last.path = "interactive") => (last.err <=> RunFails(last.child))

\* C10: every execution through the captured path echoes the child's stdout and
\* then its stderr, whatever the exit status.
C10_CapturedEchoesBothStreams ==
    (Returned /\ last.path = "captured" /\ last.child.started)
        => last.echo = PrintIfAny("stdout", last.child.stdout)
                            \o PrintIfAny("stderr", last.child.stderr)

\* The captured path echoes the two streams, in that order, when the child exits
\* with status 0, and nothing otherwise.
CapturedEchoesOnSuccessOnly ==
    (Returned /\ last.path = "captured")
        => last.echo = IF ClientExecute(last.child).err THEN <<>>
                       ELSE PrintIfAny("stdout", last.child.stdout)
                                \o PrintIfAny("stderr", last.child.stderr)

\* A step of the loop dispatched a line through the captured path to a child that
\* was still running when the client's timeout expired (no signal ended the
\* process before that).
CapturedTimeoutStep ==
    LineStep /\ pc' # "exited" /\ last'.path = "captured" /\ TimedOut(last'.child)

\* C11: a dispatch through the captured path whose child outlives the client's
\* timeout returns an error, after which the loop hands the line to the history
\* as a failure and goes on reading.
C11_TimeoutEndsTheDispatch ==
    [][ CapturedTimeoutStep
            => /\ last'.err /\ ~last'.success /\ last'.echo = <<>>
               /\ pc' = "loop" /\ running' /\ ~panicked' ]_vars

\* The same, for the history sizes for which Add does not panic.
C11_HoldsForNonNegativeSize ==
    [][ (CapturedTimeoutStep /\ maxSize >= 0)
            => /\ last'.err /\ ~last'.success /\ last'.echo = <<>>
               /\ pc' = "loop" /\ running' /\ ~panicked' ]_vars

\* A line whose child timed out on the captured path has been recorded as a failure.
CapturedTimeoutRecorded ==
    /\ pc = "loop" /\ last.path = "captured" /\ TimedOut(last.child)
    /\ Len(entries) >= 1
    /\ entries[Len(entries)].Command = last.line
    /\ ~entries[Len(entries)].Success

-----------------------------------------------------------------------------
(* Properties of the alias resolution. *)

Range(f) == { f[x] : x \in DOMAIN f }

\* The tokens of a text, as a set (none if it does not tokenize).
TokensIn(text) == Range(tokenize(text).tokens)

\* A step of the loop processed a line that parsed and validated and whose
\* command name is a key of the alias table.
AliasedStep ==
    /\ LineStep
    /\ ParseCommand(last'.line).ok
    /\ ValidateCommand(ParseCommand(last'.line).cmd) = ""
    /\ ParseCommand(last'.line).cmd.Name \in DOMAIN aliases

\* C12: when the name of the parsed command is an alias key, the command
\* dispatched is ParseCommand(expansion + " " + the original arguments joined by
\* single spaces); no option key or option value of the original command gets
\* into it.
C12_AliasExpansion ==
    [][ (AliasedStep /\ last'.stage = "dispatch")
            => LET o == ParseCommand(last'.line).cmd
                   text == aliases[o.Name] \o <<" ">> \o Join(o.Args, <<" ">>)
                   d == last'.cmd
               IN  /\ d = ParseCommand(text).cmd
                   /\ \A k \in DOMAIN o.Options :
                        /\ k \notin TokensIn(text)
                              => k \notin DOMAIN d.Options /\ k \notin Range(d.Args)
                        /\ (o.Options[k] # <<>> /\ o.Options[k] \notin TokensIn(text))
                              => o.Options[k] \notin Range(d.Options) \cup Range(d.Args) ]_vars

\* "q -u bob al" has been dispatched as the command of "queue al".
C12_Witness ==
    /\ pc = "loop"
    /\ last.line = LINE_QOPT
    /\ DOMAIN ParseCommand(last.line).cmd.Options # {}
    /\ last.stage = "dispatch" /\ last.path = "handler"
    /\ last.cmd = Command(S_queue, << <<"a", "l">> >>, EmptyMap)

\* C13: the alias table is consulted once per line: the command dispatched has the
\* first word of the expansion as its name, and is dispatched under that name even
\* when the name is an alias key itself.
C13_OneLevelOfAliases ==
    [][ (AliasedStep /\ last'.stage = "dispatch")
            => LET o == ParseCommand(last'.line).cmd
                   words == tokenize(aliases[o.Name]).tokens
               IN  Len(words) >= 1
                     => /\ last'.cmd.Name = words[1]
                        /\ last'.path = PathOf(registry, words[1]) ]_vars

\* With b -> "c" and c -> "b" in the table, "b al" has been dispatched as the
\* program c.
C13_Witness ==
    /\ last.line = LINE_B_ARG
    /\ aliases = LoopingAliases
    /\ last.stage = "dispatch"
    /\ last.cmd.Name = <<"c">> /\ <<"c">> \in DOMAIN aliases
    /\ last.cmd.Args = << <<"a", "l">> >>
    /\ last.path = "interactive"

\* With a -> "a x" in the table, "a" has been dispatched as the program a.
SelfAliasDispatched ==
    /\ last.line = <<"a">>
    /\ aliases = LoopingAliases
    /\ last.stage = "dispatch"
    /\ last.cmd = Command(<<"a">>, << <<"x">> >>, EmptyMap)
    /\ last.path = "interactive"

\* A step of the loop processed a line whose alias expansion failed to parse.
AliasErrorStep ==
    /\ AliasedStep
    /\ LET o == ParseCommand(last'.line).cmd
       IN  ~ParseCommand(aliases[o.Name] \o <<" ">> \o Join(o.Args, <<" ">>)).ok

\* C14: when the re-parse of the alias expansion fails, Registry.Execute is not
\* called for the line, and the line is handed to the history as a failure.
C14_AliasErrorIsRecorded ==
    [][ AliasErrorStep
            => /\ last'.stage = "alias" /\ last'.path = "none" /\ last'.child = NoChild
               /\ ~last'.success
               /\ pc' = "loop" /\ ~panicked' ]_vars

\* The same, for the history sizes for which Add does not panic.
C14_HoldsForNonNegativeSize ==
    [][ (AliasErrorStep /\ maxSize >= 0)
            => /\ last'.stage = "alias" /\ last'.path = "none" /\ last'.child = NoChild
               /\ ~last'.success
               /\ pc' = "loop" /\ ~panicked' ]_vars

\* A line whose alias expansion failed to parse has been recorded as a failure.
AliasErrorRecorded ==
    /\ pc = "loop" /\ last.stage = "alias" /\ last.line = LINE_ALIASQ
    /\ Len(entries) >= 1
    /\ entries[Len(entries)].Command = last.line
    /\ ~entries[Len(entries)].Success

-----------------------------------------------------------------------------
(* The job options of the run and submit handlers. *)

\* parseInt: the number a string of digits writes, 0 for any other string.
parseInt(s) == IF \A i \in 1..Len(s) : IsDigit(s[i]) THEN NatOf(s) ELSE 0

\* A variant of SetOption that drops the unknown options that have no value.
SetOptionDropsFlags(jo, opt, value) ==
    IF opt = OptN THEN [jo EXCEPT !.Nodes = IF parseInt(value) > 0 THEN parseInt(value) ELSE @]
    ELSE IF value = <<>> THEN jo
    ELSE [jo EXCEPT !.ExtraArgs = @ \o <<opt, value>>]
\* The body of the loop of ParseJobOptions: the switch on one option.
SetOption(jo, opt, value) ==
    IF opt \in { <<"-", "J">>, <<"-", "-", "j", "o", "b", "-", "n", "a", "m", "e">> }
    THEN [jo EXCEPT !.Name = value]
    ELSE IF opt \in { <<"-", "p">>, <<"-", "-", "p", "a", "r", "t", "i", "t", "i", "o", "n">> }
    THEN [jo EXCEPT !.Partition = value]
    ELSE IF opt \in { <<"-", "N">>, <<"-", "-", "n", "o", "d", "e", "s">> }
    THEN [jo EXCEPT !.Nodes = IF parseInt(value) > 0 THEN parseInt(value) ELSE @]
    ELSE IF opt \in { <<"-", "c">>, <<"-", "-", "c", "p", "u", "s", "-", "p", "e", "r", "-", "t", "a", "s", "k">> }
    THEN [jo EXCEPT !.CPUs = IF parseInt(value) > 0 THEN parseInt(value) ELSE @]
    ELSE IF opt \in { <<"-", "-", "m", "e", "m">> }
    THEN [jo EXCEPT !.Memory = value]
    ELSE IF opt \in { <<"-", "t">>, <<"-", "-", "t", "i", "m", "e">> }
    THEN [jo EXCEPT !.Time = value]
    ELSE IF opt \in { <<"-", "-", "q", "o", "s">> }
    THEN [jo EXCEPT !.QoS = value]
    ELSE IF opt \in { <<"-", "A">>, <<"-", "-", "a", "c", "c", "o", "u", "n", "t">> }
    THEN [jo EXCEPT !.Account = value]
    ELSE IF opt \in { <<"-", "o">>, <<"-", "-", "o", "u", "t", "p", "u", "t">> }
    THEN [jo EXCEPT !.Output = value]
    ELSE IF opt \in { <<"-", "e">>, <<"-", "-", "e", "r", "r", "o", "r">> }
    THEN [jo EXCEPT !.Error = value]
    ELSE IF opt \in { <<"-", "D">>, <<"-", "-", "c", "h", "d", "i", "r">> }
    THEN [jo EXCEPT !.WorkDir = value]
    ELSE [jo EXCEPT !.ExtraArgs = @ \o (IF value # <<>> THEN <<opt, value>> ELSE <<opt>>)]

\* ParseJobOptions(options), the loop visiting the keys of the map in the given
\* order (the order of a range over a map is not fixed).
RECURSIVE ParseJobOptions(_, _)
ParseJobOptions(options, order) ==
    IF order = <<>>
    THEN [Name |-> <<>>, Partition |-> <<>>, Nodes |-> 0, CPUs |-> 0, Memory |-> <<>>,
          Time |-> <<>>, QoS |-> <<>>, Account |-> <<>>, Output |-> <<>>, Error |-> <<>>,
          WorkDir |-> <<>>, Environment |-> EmptyMap, ExtraArgs |-> <<>>]
    ELSE LET n == Len(order)
         IN  SetOption(ParseJobOptions(options, SubSeq(order, 1, n - 1)), order[n], options[order[n]])

-----------------------------------------------------------------------------
(* The tokenizer, the parser and the validator on their own: each function *)
(* applied to an argument drawn from a bounded set.                        *)

MaxChars == 4
MaxWords == 5

\* An argument: a line, or a command.
Input(kind, line, cmd) == [kind |-> kind, line |-> line, cmd |-> cmd]

\* The arguments: every line of at most MaxChars characters over a letter, the
\* dash, the space, the tab, the two quote characters and the backslash; every
\* line of at most MaxWords words separated by single spaces; the commands with
\* any of the options -N, -w and -t; the option maps with any of the keys -N,
\* -J, -x and --foo, each with no value, a number or a word, and those maps with
\* the key --nodes and another number.
ParserInputs ==
    LET chars == { "a", "-", " ", "\t", "\"", "'", "\\" }
        words == { <<"x">>, <<"-", "k">>, <<"-", "j">>, <<"v">>, <<"w">> }
        counts == { <<>>, <<"2">> }
        times == { <<>>, <<"5">>, <<"1", "0">>, <<"1", ":", "2">>, <<"1", ":", "2", ":", "3">>,
                   <<"1", ":", "2", ":", "3", ":", "4">>, <<"a">>, <<"1", "a">>,
                   <<"a", ":", "b">>, <<":">>, <<"1", ":">> }
        maps == UNION { [K -> counts \cup times] : K \in SUBSET {OptN, OptW, OptT} }
        keyed == UNION { [K -> { <<>>, <<"2">>, <<"v">> }] :
                            K \in SUBSET { OptN, <<"-", "J">>, <<"-", "x">>,
                                           <<"-", "-", "f", "o", "o">> } }
        nodes == <<"-", "-", "n", "o", "d", "e", "s">>
        options == { o \in maps :
                        /\ \A k \in DOMAIN o \cap {OptN, OptW} : o[k] \in counts
                        /\ OptT \in DOMAIN o => o[OptT] \in times }
    IN  { Input("line", l, NoCommand) : l \in UNION { [1..k -> chars] : k \in 0..MaxChars } }
        \cup { Input("line", Join(ws, <<" ">>), NoCommand) :
                    ws \in UNION { [1..k -> words] : k \in 1..MaxWords } }
        \cup { Input("cmd", <<>>, Command(name, <<>>, o)) : name \in { <<>>, <<"x">> }, o \in options }
        \cup { Input("options", <<>>, Command(<<>>, <<>>, o)) : o \in keyed }
        \cup { Input("options", <<>>,
                     Command(<<>>, <<>>, [k \in DOMAIN o \cup {nodes} |->
                                            IF k = nodes THEN <<"3">> ELSE o[k]])) : o \in keyed }

\* The function applied and what it returned.
Applied(op, ok, tokens, err, cmd) ==
    [op |-> op, ok |-> ok, tokens |-> tokens, err |-> err, cmd |-> cmd]

PInit ==
    /\ entries = <<>>
    /\ maxSize = 0
    /\ panicked = FALSE
    /\ file = NoFile
    /\ nops = 0
    /\ accepted = <<>>
    /\ lastOp = NoOp
    /\ savedLog = <<>>
    /\ fresh = NotLoaded
    /\ pc = "parser"
    /\ running = FALSE
    /\ aliases = EmptyMap
    /\ registry = EmptyRegistry
    /\ last = NoLine
    /\ nlines = 0
    /\ pin \in ParserInputs
    /\ pout = NoOutput

\* tokenize(line)
PTokenize ==
    LET t == tokenize(pin.line)
    IN  /\ pc = "parser" /\ pin.kind = "line"
        /\ pout' = Applied("tokenize", t.ok, t.tokens, IF t.ok THEN "" ELSE "unclosed quote", NoCommand)
        /\ UNCHANGED <<hvars, gvars, svars, pin>>

\* ParseCommand(line)
PParseCommand ==
    LET p == ParseCommand(pin.line)
    IN  /\ pc = "parser" /\ pin.kind = "line"
        /\ pout' = Applied("ParseCommand", p.ok, <<>>, p.err, p.cmd)
        /\ UNCHANGED <<hvars, gvars, svars, pin>>

\* ValidateCommand(cmd)
PValidateCommand ==
    LET v == ValidateCommand(pin.cmd)
    IN  /\ pc = "parser" /\ pin.kind = "cmd"
        /\ pout' = Applied("ValidateCommand", v = "", <<>>, v, pin.cmd)
        /\ UNCHANGED <<hvars, gvars, svars, pin>>

\* buildArgs(cmd), the loop visiting the options in the given order: each key,
\* and after it its value when there is one; then the positional arguments.
RECURSIVE buildArgs(_, _)
buildArgs(cmd, order) ==
    IF order = <<>> THEN cmd.Args
    ELSE LET opt == Head(order)
             value == cmd.Options[opt]
         IN  <<opt>> \o (IF value # <<>> THEN <<value>> ELSE <<>>) \o buildArgs(cmd, Tail(order))

\* buildArgs(cmd) on the command of a line, with the options visited in some order
PBuildArgs ==
    LET p == ParseCommand(pin.line)
    IN  /\ pc = "parser" /\ pin.kind = "line" /\ p.ok
        /\ \E order \in { f \in [1..Cardinality(DOMAIN p.cmd.Options) -> DOMAIN p.cmd.Options] :
                                \A i, j \in DOMAIN f : f[i] = f[j] => i = j } :
                pout' = Applied("buildArgs", TRUE, buildArgs(p.cmd, order), "", p.cmd)
        /\ UNCHANGED <<hvars, gvars, svars, pin>>

\* ParseJobOptions(cmd.Options), with the keys of the map visited in some order
PParseJobOptions ==
    /\ pc = "parser" /\ pin.kind = "options"
    /\ \E order \in { f \in [1..Cardinality(DOMAIN pin.cmd.Options) -> DOMAIN pin.cmd.Options] :
                            \A i, j \in DOMAIN f : f[i] = f[j] => i = j } :
            pout' = Applied("ParseJobOptions", TRUE, <<>>, "",
                            ParseJobOptions(pin.cmd.Options, order))
    /\ UNCHANGED <<hvars, gvars, svars, pin>>

PNext == PTokenize \/ PParseCommand \/ PValidateCommand \/ PParseJobOptions \/ PBuildArgs

SpecParser == PInit /\ [][PNext]_vars

-----------------------------------------------------------------------------
(* Properties of the tokenizer, the parser and the validator. *)

\* Character i of the line follows a backslash that is not itself escaped.
RECURSIVE IsEscaped(_, _)
IsEscaped(line, i) == i > 1 /\ line[i - 1] = "\\" /\ ~IsEscaped(line, i - 1)

\* The quote character of the region that is open after the first i characters
\* of the line, "" when none is: an unescaped quote opens a region when none is
\* open and closes the region that the same character opened.
RECURSIVE OpenQuote(_, _)
OpenQuote(line, i) ==
    IF i = 0 THEN ""
    ELSE LET q == OpenQuote(line, i - 1)
         IN  IF IsEscaped(line, i) \/ line[i] \notin {"\"", "'"} THEN q
             ELSE IF q = "" THEN line[i]
             ELSE IF q = line[i] THEN ""
             ELSE q

\* C15: tokenize returns the unclosed-quote error exactly when the line ends
\* inside a quoted region; for every other line, the empty one included, it
\* returns tokens and no error.
C15_UnclosedQuoteOnly ==
    pout.op = "tokenize"
        => /\ pout.ok <=> OpenQuote(pin.line, Len(pin.line)) = ""
           /\ ~pout.ok => pout.err = "unclosed quote"
           /\ pout.ok => pout.err = ""
           /\ pin.line = <<>> => pout.ok /\ pout.tokens = <<>>

\* tokenize has failed on a line that opens a region and then holds an escaped
\* occurrence of the quote character.
C15_Witness ==
    /\ pout.op = "tokenize" /\ ~pout.ok
    /\ pin.line = <<"\"", "a", "\\", "\"">>

\* The tokens of the line ParseCommand was applied to.
Tokens == tokenize(TrimSpace(pin.line)).tokens

\* Token i starts with '-'.
IsKey(t, i) == t[i][1] = "-"

\* Token i is the value of the option key before it: it follows a key that is
\* not the first token, and does not start with '-'.
IsValue(t, i) == i >= 3 /\ ~IsKey(t, i) /\ IsKey(t, i - 1)

\* Token i is a positional argument.
IsArg(t, i) == i >= 2 /\ ~IsKey(t, i) /\ ~IsValue(t, i)

\* The value that the key at position i takes: the next token or "".
ValueAt(t, i) == IF i + 1 <= Len(t) /\ ~IsKey(t, i + 1) THEN t[i + 1] ELSE <<>>

\* The tokens at the positions from i on that satisfy IsArg, in order.
RECURSIVE ArgsFrom(_, _)
ArgsFrom(t, i) ==
    IF i > Len(t) THEN <<>>
    ELSE (IF IsArg(t, i) THEN <<t[i]>> ELSE <<>>) \o ArgsFrom(t, i + 1)

\* The positions after the first at which key k occurs.
Occurrences(t, k) == { i \in 2..Len(t) : t[i] = k }

Last(S) == CHOOSE i \in S : \A j \in S : j <= i

\* C16: in a parsed line every token after the first is an option key, the value
\* of the key just before it, or a positional argument: the keys of Options are
\* the tokens that start with '-', a key followed by a token that does not start
\* with '-' has that token as its value and another key has "", and Args holds
\* the remaining tokens in their order.
C16_TokenRoles ==
    (pout.op = "ParseCommand" /\ pout.ok)
        => /\ pout.cmd.Name = Tokens[1]
           /\ pout.cmd.Args = ArgsFrom(Tokens, 2)
           /\ DOMAIN pout.cmd.Options = { Tokens[i] : i \in { j \in 2..Len(Tokens) : IsKey(Tokens, j) } }
           /\ \A i \in 2..Len(Tokens) :
                (IsKey(Tokens, i) /\ Occurrences(Tokens, Tokens[i]) = {i})
                    => pout.cmd.Options[Tokens[i]] = ValueAt(Tokens, i)

\* "x -k v w -j" has been parsed: -k has the value v, w is an argument, -j is a flag.
C16_Witness ==
    /\ pout.op = "ParseCommand" /\ pout.ok
    /\ pin.line = <<"x", " ", "-", "k", " ", "v", " ", "w", " ", "-", "j">>
    /\ pout.cmd.Args = << <<"w">> >>
    /\ pout.cmd.Options[<<"-", "k">>] = <<"v">>
    /\ pout.cmd.Options[<<"-", "j">>] = <<>>

\* No character of the line gets into a token: each is an unescaped quote that
\* opens or closes a region, an unescaped backslash, or a space or tab outside
\* the quoted regions.
NoContent(line) ==
    \A i \in 1..Len(line) :
        /\ ~IsEscaped(line, i)
        /\ \/ line[i] = "\\"
           \/ line[i] \in {"\"", "'"} /\ OpenQuote(line, i - 1) \in {"", line[i]}
           \/ line[i] \in {" ", "\t"} /\ OpenQuote(line, i - 1) = ""

\* C17 as claimed: ParseCommand fails when the line is blank or ends inside a
\* quoted region, and yields a Command for every other line.
C17_AsClaimed ==
    pout.op = "ParseCommand"
        => (pout.ok <=> ~(\/ TrimSpace(pin.line) = <<>>
                          \/ OpenQuote(TrimSpace(pin.line), Len(TrimSpace(pin.line))) # ""))

\* C17, amended: ParseCommand fails in three cases only: the line is blank
\* ("empty command"), it ends inside a quoted region ("unclosed quote"), or it
\* yields no token, as "" does ("no tokens found"); every other line yields a
\* Command.
C17_ParseFailures ==
    pout.op = "ParseCommand"
        => LET line == TrimSpace(pin.line)
           IN  /\ pout.err = IF line = <<>> THEN "empty command"
                             ELSE IF OpenQuote(line, Len(line)) # "" THEN "unclosed quote"
                             ELSE IF NoContent(line) THEN "no tokens found"
                             ELSE ""
               /\ pout.ok <=> pout.err = ""
               /\ pout.ok => pout.cmd.Name # <<>>

\* ParseCommand has failed on the line "" (two quote characters).
C17_Witness ==
    /\ pout.op = "ParseCommand" /\ ~pout.ok
    /\ pin.line = <<"\"", "\"">>
    /\ pout.err = "no tokens found"

\* C18: when an option key occurs more than once, Options holds for it the value
\* (or "") of its last occurrence; the value of an earlier occurrence is not in
\* Options and not in Args, unless the line holds the same word as an argument
\* or as the value of a last occurrence too.
C18_LastOccurrenceWins ==
    (pout.op = "ParseCommand" /\ pout.ok)
        => \A i \in 2..Len(Tokens) :
              (IsKey(Tokens, i) /\ Cardinality(Occurrences(Tokens, Tokens[i])) >= 2)
                  => LET occ == Occurrences(Tokens, Tokens[i])
                         kept == { j \in 2..Len(Tokens) :
                                      \/ IsArg(Tokens, j)
                                      \/ IsValue(Tokens, j)
                                            /\ j - 1 = Last(Occurrences(Tokens, Tokens[j - 1])) }
                     IN  /\ pout.cmd.Options[Tokens[i]] = ValueAt(Tokens, Last(occ))
                         /\ (i # Last(occ) /\ ValueAt(Tokens, i) # <<>>
                                /\ \A j \in kept : Tokens[j] # ValueAt(Tokens, i))
                              => ValueAt(Tokens, i) \notin Range(pout.cmd.Options) \cup Range(pout.cmd.Args)

\* "x -k v -k w" has been parsed: -k has the value w, and v is nowhere.
C18_Witness ==
    /\ pout.op = "ParseCommand" /\ pout.ok
    /\ pin.line = <<"x", " ", "-", "k", " ", "v", " ", "-", "k", " ", "w">>
    /\ pout.cmd.Options[<<"-", "k">>] = <<"w">>
    /\ DOMAIN pout.cmd.Options = { <<"-", "k">> }
    /\ pout.cmd.Args = <<>>

\* C19: ValidateCommand fails whenever Options has both -N and -w, whatever their
\* values, and fails with the conflict error only when both are present.
C19_NodesAndNodelistConflict ==
    pout.op = "ValidateCommand"
        => LET both == OptN \in DOMAIN pin.cmd.Options /\ OptW \in DOMAIN pin.cmd.Options
           IN  /\ both => ~pout.ok
               /\ (both /\ pin.cmd.Name # <<>>)
                     => pout.err = "cannot specify both -N (nodes) and -w (nodelist)"
               /\ ~both => pout.err # "cannot specify both -N (nodes) and -w (nodelist)"

\* ValidateCommand has rejected a command with -N and -w, both without a value.
C19_Witness ==
    /\ pout.op = "ValidateCommand" /\ ~pout.ok
    /\ pin.cmd.Name # <<>>
    /\ pin.cmd.Options = [k \in {OptN, OptW} |-> <<>>]
    /\ pout.err = "cannot specify both -N (nodes) and -w (nodelist)"

\* A time value of one of the two shapes: digits only, or 2 or 3 fields of digits
\* separated by colons.
TimeShape(v) ==
    LET colons == { i \in 1..Len(v) : v[i] = ":" }
    IN  /\ v # <<>>
        /\ \A i \in 1..Len(v) : v[i] = ":" \/ IsDigit(v[i])
        /\ Cardinality(colons) <= 2
        /\ \A i \in colons : i > 1 /\ i < Len(v) /\ i + 1 \notin colons

\* C20: for a command with a name and without the -N/-w conflict, ValidateCommand
\* fails with the invalid-time-format error exactly when -t is present with a
\* value (or no value) that has neither of the two shapes.
C20_TimeFormat ==
    (/\ pout.op = "ValidateCommand"
     /\ pin.cmd.Name # <<>>
     /\ ~(OptN \in DOMAIN pin.cmd.Options /\ OptW \in DOMAIN pin.cmd.Options))
        => (pout.err = "invalid time format"
                <=> (OptT \in DOMAIN pin.cmd.Options /\ ~TimeShape(pin.cmd.Options[OptT])))

\* What ValidateCommand does with -t: it rejects a value that has a character
\* other than a digit and no colon, or more than two colons; it accepts -t
\* without a value and every value with one or two colons.
TimeFormatOfTheCode ==
    (/\ pout.op = "ValidateCommand"
     /\ pin.cmd.Name # <<>>
     /\ ~(OptN \in DOMAIN pin.cmd.Options /\ OptW \in DOMAIN pin.cmd.Options))
        => (pout.err = "invalid time format"
                <=> /\ OptT \in DOMAIN pin.cmd.Options
                    /\ LET v == pin.cmd.Options[OptT]
                           colons == Cardinality({ i \in 1..Len(v) : v[i] = ":" })
                       IN  \/ colons > 2
                           \/ colons = 0 /\ \E i \in 1..Len(v) : ~IsDigit(v[i]))

\* ValidateCommand has accepted -t a:b.
BadTimeAccepted ==
    /\ pout.op = "ValidateCommand" /\ pout.ok
    /\ OptT \in DOMAIN pin.cmd.Options
    /\ pin.cmd.Options[OptT] = <<"a", ":", "b">>

-----------------------------------------------------------------------------
(* The History and its file: Load on files of any content, Save on a disk that
   may refuse the file or the bytes. *)

MaxFileLines == 2

\* History.Save on a History holding es, with file f on a disk that is "ok", or
\* where os.Create fails ("nocreate"), or where the file is created and every
\* write to it fails ("nowrite"): the error it returns and the file it leaves.
\* The buffered writer writes to the file only
\* when a line does not fit what is left of its buffer, and once more in the
\* deferred Flush, whose error is dropped.
Save(es, f, disk) ==
    IF disk = "nocreate" THEN [err |-> TRUE, file |-> f]
    ELSE IF disk = "ok" THEN [err |-> FALSE, file |-> FileOf(SaveText(es))]
    ELSE [err |-> ByteLen(SaveText(es)) > defaultBufSize, file |-> FileOf(<<>>)]

\* The history files at startup: none; one line, well-formed, blank, with too
\* few separators, with a field that Sscanf rejects, with a success field that is
\* no boolean and that Sscanf takes, or too long for the scanner; or at most
\* MaxFileLines lines among five of those.
Files ==
    LET valid == { <<"3", "|", "t", "r", "u", "e", "|", "4", "|", "l", "s">>,
                   <<"5", "|", "f", "a", "l", "s", "e", "|", "0", "|", "a", "|", "b">> }
        other == { <<>>,
                   <<"1", "|", "t", "r", "u", "e", "|", "2">>,
                   <<"1", "|", "t", "r", "u", "e", "|", "2", "|", Big>> }
        alone == { <<" ", "7", "|", "t", "|", "1", "|", "d", " ", "\r">>,
                   <<"1", "|", "t", "r", "u", "e", "|", "2", "|">>,
                   <<"g", "a", "r", "b", "a", "g", "e">>,
                   <<"x", "|", "t", "r", "u", "e", "|", "2", "|", "c">>,
                   <<"1", "|", "m", "a", "y", "b", "e", "|", "2", "|", "c">>,
                   <<"1", "|", "t", "r", "|", "2", "|", "c">>,
                   <<"1", "|", "t", "r", "u", "e", "|", "y", "|", "c">> }
        text(ls) == Join(ls, <<"\n">>) \o <<"\n">>
    IN  {NoFile}
        \cup { FileOf(text(<<l>>)) : l \in alone }
        \cup { FileOf(text(ls)) : ls \in UNION { [1..k -> valid \cup other] : k \in 1..MaxFileLines } }

\* NewHistory(maxSize), with whatever history file is there
FInit ==
    /\ entries = <<>>
    /\ maxSize \in MaxSizes
    /\ panicked = FALSE
    /\ file \in Files
    /\ nops = 0
    /\ accepted = <<>>
    /\ lastOp = NoOp
    /\ savedLog = <<>>
    /\ fresh = NotLoaded
    /\ NoShell

\* h.Save() on a disk
HSaveOn(disk) ==
    LET r == Save(entries, file, disk)
    IN  /\ Live
        /\ file' = r.file
        /\ lastOp' = Op("Save", <<>>, FALSE, r.err, FALSE)
        /\ nops' = nops + 1
        /\ UNCHANGED <<entries, maxSize, panicked, accepted, savedLog, fresh>>
        /\ UNCHANGED <<svars, pvars>>

\* A variant of GetByIndex that counts from 0.
GetByIndexFromZero(es, index) ==
    IF index < 0 \/ index >= Len(es) THEN [command |-> <<>>, err |-> TRUE]
    ELSE [command |-> es[index + 1].Command, err |-> FALSE]

\* History.GetByIndex on a History holding es: the command and the error.
GetByIndex(es, index) ==
    IF index < 1 \/ index > Len(es) THEN [command |-> <<>>, err |-> TRUE]
    ELSE [command |-> es[index].Command, err |-> FALSE]

\* h.GetByIndex(index); lastOp keeps the index asked for
HGetByIndex(index) ==
    LET r == GetByIndex(entries, index)
    IN  /\ Live
        /\ lastOp' = [op |-> "GetByIndex", command |-> r.command, appended |-> FALSE,
                       err |-> r.err, twice |-> FALSE, index |-> index]
        /\ nops' = nops + 1
        /\ UNCHANGED <<hvars, accepted, savedLog, fresh, svars, pvars>>

FNext ==
    \/ \E c \in { <<"a">>, <<Big>> } : HAdd(c, TRUE, 0, [sec |-> 7, nsec |-> 0])
    \/ \E i \in 0..(MaxSizeBound + 1) : HGetByIndex(i)
    \/ HLoad
    \/ HClear
    \/ \E d \in { "ok", "nocreate", "nowrite" } : HSaveOn(d)

SpecFiles == FInit /\ [][FNext]_vars

\* The step is a Load of a history file that exists.
LoadStep == lastOp'.op = "Load" /\ nops' = nops + 1 /\ file.exists

\* The entries of the lines of a text that Load does not skip, in file order.
ValidEntries(text) == ReadEntries(ScanLines(text))

\* C21: Load never returns an error because of what the file contains: it skips
\* every line without three separators or with a timestamp, success or duration
\* that does not parse, and loads the other lines in file order.
C21_LoadNeverFailsOnContent ==
    [][ LoadStep =>
            /\ ~lastOp'.err
            /\ maxSize >= 0 => entries' = KeepLast(ValidEntries(file.text), maxSize) ]_vars

\* Every line of the text, newline included, fits the buffer of the scanner.
ScannerFits(text) == \A i \in 1..Len(RawLines(text)) : ~TooLong(RawLines(text)[i])

\* What holds of C21: of a file whose lines fit the scanner's buffer.
C21_HoldsWhenLinesFit ==
    [][ (LoadStep /\ ScannerFits(file.text)) =>
            /\ ~lastOp'.err
            /\ maxSize >= 0 => entries' = KeepLast(ValidEntries(file.text), maxSize) ]_vars

\* Load has loaded the line 1|maybe|2|c, whose success field is no boolean, as
\* an entry with success = false.
NonBooleanLoaded ==
    /\ lastOp.op = "Load" /\ ~lastOp.err
    /\ file = FileOf(<<"1", "|", "m", "a", "y", "b", "e", "|", "2", "|", "c", "\n">>)
    /\ Len(entries) = 1
    /\ entries[1].Command = <<"c">> /\ ~entries[1].Success

\* C22: a Load that returns no error, of a file with k valid lines into a History
\* of maxSize m >= 0, leaves in the log exactly the last min(k, m) valid lines,
\* in file order, whatever the log held before.
C22_LoadKeepsTheLastLines ==
    [][ (LoadStep /\ ~lastOp'.err /\ maxSize >= 0) =>
            LET valid == ValidEntries(file.text)
            IN  entries' = LastN(valid, Min(Len(valid), maxSize)) ]_vars

\* A Load, after other operations, of a file with more valid lines than maxSize.
C22_Witness ==
    /\ lastOp.op = "Load" /\ ~lastOp.err /\ nops >= 2
    /\ file.exists /\ maxSize >= 1
    /\ Len(ValidEntries(file.text)) > maxSize
    /\ entries = LastN(ValidEntries(file.text), maxSize)

\* C23: Save returns nil only if every entry was written: when the file cannot be
\* created, an entry cannot be written or the buffered writer cannot be flushed,
\* Save returns an error.
C23_SaveReportsEveryFailure ==
    [][ (lastOp'.op = "Save" /\ nops' = nops + 1 /\ ~lastOp'.err) =>
            file' = FileOf(SaveText(entries)) ]_vars

\* What holds of C23: a failure to create the file, and a failed write of a log
\* larger than the buffer of the writer, are reported.
C23_HoldsBeyondTheBuffer ==
    [][ (/\ lastOp'.op = "Save" /\ nops' = nops + 1 /\ ~lastOp'.err
         /\ ByteLen(SaveText(entries)) > defaultBufSize) =>
            file' = FileOf(SaveText(entries)) ]_vars

-----------------------------------------------------------------------------
(* The signal goroutine and the pace of the loop. *)

\* The step leaves in the history file nothing that it did not hold before: what
\* the file holds is the beginning of what it held.
WritesNothingNew ==
    /\ "part" \notin DOMAIN file'
    /\ Len(file'.text) <= Len(file.text)
    /\ file'.text = SubSeq(file.text, 1, Len(file'.text))

SessionEntryWrittenOnSignal ==
    /\ pc = "interrupted"
    /\ nlines = 1 /\ last.line = LINE_LONG /\ NewestIs(entries, LINE_LONG)
    /\ Len(entries) = 1
    /\ file.text # <<>> /\ "part" \in DOMAIN file

C25_AsClaimed ==
    [][ (pc = "loop" /\ nlines' = nlines + 1) =>
           /\ last'.stage = "blank" => (nops' = nops /\ entries' = entries)
           /\ last'.stage # "blank" =>
                 /\ nops' = nops + 1
                 /\ lastOp' = Op("Add", last'.line, lastOp'.appended, FALSE, FALSE) ]_vars

\* C25, amended: each step of the loop takes one line through parsing,
\* validation, alias resolution, dispatch and History.Add; Add is called exactly
\* once for a non-blank line whose dispatch returns, with the line, and not at
\* all for a blank one; for a line whose dispatch does not return (the program
\* runs on, or a signal ended the process in the wait) Add is not called, and no
\* line is read after it.
C25_OneLineAtATime ==
    /\ [][ (pc = "loop" /\ nlines' = nlines + 1) =>
              /\ last'.stage = "blank" => (nops' = nops /\ entries' = entries)
              /\ (last'.stage # "blank" /\ pc' \notin {"blocked", "exited"}) =>
                    /\ last'.stage \in {"parse", "validate", "alias", "dispatch"}
                    /\ nops' = nops + 1
                    /\ lastOp' = Op("Add", last'.line, lastOp'.appended, FALSE, FALSE)
              /\ pc' \in {"blocked", "exited"} =>
                    /\ last'.stage = "dispatch" /\ last'.child.started
                    /\ nops' = nops /\ entries' = entries ]_vars
    /\ [][ (nops' # nops \/ entries' # entries) => (pc \in {"new", "loop"} /\ pc' # "exited") ]_vars
    /\ [][ (pc \in {"blocked", "exited"}) => (nlines' = nlines) ]_vars

\* Two lines read, the second equal to the first: Add was called for each.
C25_Witness ==
    /\ pc = "loop" /\ nlines >= 2 /\ nops = nlines
    /\ last.repeat /\ lastOp.op = "Add" /\ ~lastOp.appended /\ lastOp.command = last.line

-----------------------------------------------------------------------------
(* The job options. *)

\* The options the spec lists as recognized.
RecognizedOptions ==
    { <<"-", "J">>,
      <<"-", "-", "j", "o", "b", "-", "n", "a", "m", "e">>,
      <<"-", "p">>,
      <<"-", "-", "p", "a", "r", "t", "i", "t", "i", "o", "n">>,
      <<"-", "N">>,
      <<"-", "-", "n", "o", "d", "e", "s">>,
      <<"-", "c">>,
      <<"-", "-", "c", "p", "u", "s", "-", "p", "e", "r", "-", "t", "a", "s", "k">>,
      <<"-", "-", "m", "e", "m">>,
      <<"-", "t">>,
      <<"-", "-", "t", "i", "m", "e">>,
      <<"-", "-", "q", "o", "s">>,
      <<"-", "A">>,
      <<"-", "-", "a", "c", "c", "o", "u", "n", "t">>,
      <<"-", "o">>,
      <<"-", "-", "o", "u", "t", "p", "u", "t">>,
      <<"-", "e">>,
      <<"-", "-", "e", "r", "r", "o", "r">>,
      <<"-", "D">>,
      <<"-", "-", "c", "h", "d", "i", "r">> }

\* C26: ParseJobOptions drops no unrecognized option: every key of the map
\* outside the recognized set is in ExtraArgs, immediately followed by its value
\* when the value is not empty, and no recognized key is in ExtraArgs.
C26_UnknownOptionsAreKept ==
    pout.op = "ParseJobOptions" =>
        LET o == pin.cmd.Options
            x == pout.cmd.ExtraArgs
        IN  /\ \A k \in (DOMAIN o) \ RecognizedOptions :
                    \E i \in 1..Len(x) :
                        /\ x[i] = k
                        /\ o[k] # <<>> => (i < Len(x) /\ x[i + 1] = o[k])
            /\ \A i \in 1..Len(x) : x[i] \notin RecognizedOptions

\* Two unknown options, one a flag and one with a value, next to recognized ones,
\* with the valued one visited first.
C26_Witness ==
    /\ pout.op = "ParseJobOptions"
    /\ DOMAIN pin.cmd.Options = { OptN, <<"-", "J">>, <<"-", "x">>, <<"-", "-", "f", "o", "o">> }
    /\ pin.cmd.Options[OptN] = <<"2">>
    /\ pout.cmd.Nodes = 2
    /\ pout.cmd.ExtraArgs = << <<"-", "-", "f", "o", "o">>, <<"v">>, <<"-", "x">> >>

-----------------------------------------------------------------------------
(* The tokenizer, character by character. *)

\* The state of tokenize after the first i characters of the line.
After(line, i) == TokScan(SubSeq(line, 1, i), TokInit)

\* The characters of s that are not in set cs.
Without(s, cs) == SelectSeq(s, LAMBDA c : c \notin cs)

\* C27: a backslash that is not escaped is never appended to a token, and the
\* character after it is appended to the current token as it is, be it a space,
\* a tab, a quote character or a backslash, inside or outside a quoted region:
\* it opens and closes no region and ends no token. A line made of escaped
\* characters only is one token, made of those characters.
C27_EscapeIsLiteral ==
    pout.op = "tokenize" =>
        LET line == pin.line
            n == Len(line)
        IN  /\ \A i \in 1..n :
                (line[i] = "\\" /\ ~IsEscaped(line, i)) =>
                    LET b == After(line, i - 1)
                        a == After(line, i)
                    IN  /\ a.current = b.current /\ a.tokens = b.tokens
                        /\ a.inQuotes = b.inQuotes /\ a.quoteChar = b.quoteChar
                        /\ OpenQuote(line, i) = OpenQuote(line, i - 1)
                        /\ i < n =>
                            LET c == After(line, i + 1)
                            IN  /\ c.current = Append(b.current, line[i + 1])
                                /\ c.tokens = b.tokens
                                /\ c.inQuotes = b.inQuotes /\ c.quoteChar = b.quoteChar
                                /\ OpenQuote(line, i + 1) = OpenQuote(line, i - 1)
            /\ (n > 0 /\ n % 2 = 0 /\ \A j \in 1..(n \div 2) : line[2 * j - 1] = "\\") =>
                    /\ pout.ok
                    /\ pout.tokens = << [j \in 1..(n \div 2) |-> line[2 * j]] >>
            /\ pout.ok => \A k \in 1..Len(pout.tokens) :
                    Cardinality({ j \in 1..Len(pout.tokens[k]) : pout.tokens[k][j] = "\\" })
                        <= Cardinality({ i \in 1..n : line[i] = "\\" /\ IsEscaped(line, i) })

\* A quote character escaped inside a quoted region is the token.
C27_Witness ==
    /\ pout.op = "tokenize" /\ pout.ok
    /\ pin.line = <<"\"", "\\", "\"", "\"">>
    /\ pout.tokens = << <<"\"">> >>

\* C28: outside a quoted region a run of spaces and tabs separates tokens and is
\* in no token; inside a region a space, a tab and the other quote character are
\* appended as they are, and only the character that opened the region closes
\* it; the opening and the closing quote characters are not appended.
C28_SeparatorsAndQuotes ==
    pout.op = "tokenize" =>
        LET line == pin.line
            n == Len(line)
            blank == {" ", "\t"}
            quote == {"\"", "'"}
        IN  /\ \A i \in 1..n :
                ~IsEscaped(line, i) =>
                    LET b == After(line, i - 1)
                        a == After(line, i)
                        q == OpenQuote(line, i - 1)
                    IN  /\ (line[i] \in blank /\ q = "") =>
                            /\ a.current = <<>>
                            /\ a.tokens = IF b.current # <<>> THEN Append(b.tokens, b.current)
                                          ELSE b.tokens
                        /\ (line[i] \in blank /\ q # "") =>
                            /\ a.current = Append(b.current, line[i])
                            /\ a.tokens = b.tokens
                            /\ a.inQuotes /\ a.quoteChar = q
                        /\ (line[i] \in quote /\ q \notin {"", line[i]}) =>
                            /\ a.current = Append(b.current, line[i])
                            /\ a.tokens = b.tokens
                            /\ a.inQuotes /\ a.quoteChar = q
                        /\ (line[i] \in quote /\ q \in {"", line[i]}) =>
                            /\ a.current = b.current
                            /\ a.tokens = b.tokens
                            /\ a.inQuotes <=> q = ""
                            /\ a.inQuotes => a.quoteChar = line[i]
            /\ (\A i \in 1..n : line[i] \notin quote \cup {"\\"}) =>
                    /\ pout.ok
                    /\ \A k \in 1..Len(pout.tokens) : Without(pout.tokens[k], blank) = pout.tokens[k]
                    /\ Join(pout.tokens, <<>>) = Without(line, blank)
                    /\ Len(pout.tokens) =
                            Cardinality({ i \in 1..n : /\ line[i] \notin blank
                                                       /\ (i = 1 \/ line[i - 1] \in blank) })
            /\ (n >= 2 /\ line[1] \in quote /\ line[n] = line[1]
                    /\ \A i \in 2..(n - 1) : line[i] \notin {line[1], "\\"}) =>
                    /\ pout.ok
                    /\ pout.tokens = IF n = 2 THEN <<>> ELSE << SubSeq(line, 2, n - 1) >>

\* A region that holds a space and the other quote character is one token.
C28_Witness ==
    /\ pout.op = "tokenize" /\ pout.ok
    /\ pin.line = <<"\"", " ", "'", "\"">>
    /\ pout.tokens = << <<" ", "'">> >>

\* C29: a backslash that ends the line adds nothing: for every line s that does
\* not end with a pending escape, tokenize(s followed by a backslash) returns
\* what tokenize(s) returns, tokens and unclosed-quote error alike.
C29_TrailingBackslash ==
    LET line == pin.line
        n == Len(line)
    IN  (pout.op = "tokenize" /\ n >= 1 /\ line[n] = "\\" /\ ~IsEscaped(line, n)) =>
            LET t == tokenize(SubSeq(line, 1, n - 1))
            IN  /\ pout.ok = t.ok
                /\ pout.tokens = t.tokens

\* Two words and a backslash at the end: the two words.
C29_Witness ==
    /\ pout.op = "tokenize" /\ pout.ok
    /\ pin.line = <<"a", " ", "a", "\\">>
    /\ pout.tokens = << <<"a">>, <<"a">> >>

\* C30: every token of tokenize is a non-empty string (an empty quoted string
\* gives no token), so every Command of ParseCommand has a non-empty Name and
\* the empty-name check of ValidateCommand never fails on it.
C30_TokensAreNotEmpty ==
    /\ (pout.op = "tokenize" /\ pout.ok) =>
            \A k \in 1..Len(pout.tokens) : pout.tokens[k] # <<>>
    /\ (pout.op = "ParseCommand" /\ pout.ok) =>
            /\ pout.cmd.Name # <<>>
            /\ \A i \in 1..Len(pout.cmd.Args) : pout.cmd.Args[i] # <<>>
            /\ \A k \in DOMAIN pout.cmd.Options : k # <<>>
            /\ ValidateCommand(pout.cmd) # "command name cannot be empty"

\* An empty quoted string before a word: the word is the name.
C30_Witness ==
    /\ pout.op = "ParseCommand" /\ pout.ok
    /\ pin.line = <<"\"", "\"", " ", "a">>
    /\ pout.cmd.Name = <<"a">>

-----------------------------------------------------------------------------
(* The invariant of the log. *)

\* No entry of log es has an empty command and no two adjacent entries have the
\* same command.
Clean(es) ==
    /\ \A i \in 1..Len(es) : es[i].Command # <<>>
    /\ \A i \in 1..(Len(es) - 1) : es[i].Command # es[i + 1].Command

\* C31: in every state reached by Add, Load of any file, Save and Clear, no entry
\* of the log has an empty command and no two adjacent entries have the same
\* command.
C31_LogIsClean == Clean(entries)

\* What holds of C31: Add, Save and Clear keep a clean log clean.
C31_CleanButForLoad ==
    [][ (lastOp'.op # "Load" /\ Clean(entries)) => Clean(entries') ]_vars

-----------------------------------------------------------------------------
(* The argument list of an external program. *)

\* C32: the argument list handed to an external program is every option of the
\* command and then the positional arguments in their order; an option is one
\* element, key=value when it has a value and the key alone when it is a flag.
C32_OptionsAsOneElement ==
    pout.op = "buildArgs" =>
        LET o == pout.cmd.Options
            args == pout.tokens
            n == Cardinality(DOMAIN o)
        IN  /\ Len(args) = n + Len(pout.cmd.Args)
            /\ SubSeq(args, n + 1, Len(args)) = pout.cmd.Args
            /\ \A k \in DOMAIN o :
                    \E i \in 1..n :
                        args[i] = IF o[k] # <<>> THEN k \o <<"=">> \o o[k] ELSE k

\* What holds of C32: the options come first, each key as one element and its
\* value, when it has one, as the next element; the positional arguments follow
\* in their order.
C32_OptionsThenArguments ==
    pout.op = "buildArgs" =>
        LET o == pout.cmd.Options
            args == pout.tokens
            n == Cardinality(DOMAIN o) + Cardinality({ k \in DOMAIN o : o[k] # <<>> })
        IN  /\ Len(args) = n + Len(pout.cmd.Args)
            /\ SubSeq(args, n + 1, Len(args)) = pout.cmd.Args
            /\ \A k \in DOMAIN o :
                    \E i \in 1..n :
                        /\ args[i] = k
                        /\ o[k] # <<>> => (i < n /\ args[i + 1] = o[k])

-----------------------------------------------------------------------------
(* The entries by index. *)

\* C33: GetByIndex(i) returns the command of the i-th oldest entry of the log
\* for 1 <= i <= len(log) and an error for every other i, and leaves the log as
\* it is; an Add that evicts makes index 1 the oldest entry kept, so that every
\* entry kept answers to the index one below its former one.
C33_GetByIndex ==
    /\ [][ (lastOp'.op = "GetByIndex" /\ nops' = nops + 1) =>
              /\ entries' = entries
              /\ (1 <= lastOp'.index /\ lastOp'.index <= Len(entries)) =>
                    (~lastOp'.err /\ lastOp'.command = entries[lastOp'.index].Command)
              /\ (lastOp'.index < 1 \/ lastOp'.index > Len(entries)) => lastOp'.err ]_vars
    /\ [][ (AddStep /\ lastOp'.appended /\ maxSize >= 1 /\ Len(entries) = maxSize) =>
              /\ \A i \in 2..Len(entries) :
                    GetByIndex(entries', i - 1) = GetByIndex(entries, i)
              /\ GetByIndex(entries', Len(entries')).command = TrimSpace(lastOp'.command)
              /\ GetByIndex(entries', Len(entries') + 1).err ]_vars

\* After an eviction, index 1 gave the oldest entry kept.
C33_Witness ==
    /\ lastOp.op = "GetByIndex" /\ ~lastOp.err /\ lastOp.index = 1
    /\ maxSize >= 2 /\ Len(entries) = maxSize
    /\ Len(accepted) > maxSize
    /\ lastOp.command = accepted[Len(accepted) - maxSize + 1]
    /\ lastOp.command # accepted[1]

-----------------------------------------------------------------------------
(* The end of the loop. *)

\* C34: at the end of the input, or once a handler has called Stop, the loop
\* dispatches no further line and Save is called exactly once before Run
\* returns, on a log whose newest entry is the last line processed, the exit
\* line included; a blank line is neither dispatched nor recorded.
C34_SavedOnceAtTheEnd ==
    /\ [][ (pc = "loop" /\ ~running) =>
              (nlines' = nlines /\ last' = last /\ pc' \in {"loop", "done", "exited", "interrupted"}) ]_vars
    /\ [][ (LineStep /\ ~running') => (pc' = "loop" /\ NewestIs(entries', last'.line)) ]_vars
    /\ [][ pc' = "done" =>
              /\ pc = "loop"
              /\ entries' = entries
              /\ file' = FileOf(SaveText(entries))
              /\ nops >= 1 => NewestIs(entries, lastOp.command) ]_vars
    /\ [][ pc = "done" => UNCHANGED vars ]_vars
    /\ [][ (pc = "loop" /\ nlines' = nlines + 1 /\ last'.stage = "blank") =>
              (entries' = entries /\ last'.path = "none" /\ last'.child = NoChild) ]_vars

\* What holds of C34: the same, for the history sizes of at least 1.
C34_HoldsForPositiveSize ==
    /\ [][ (pc = "loop" /\ ~running) =>
              (nlines' = nlines /\ last' = last /\ pc' \in {"loop", "done", "exited", "interrupted"}) ]_vars
    /\ [][ (LineStep /\ ~running' /\ maxSize >= 1) =>
              (pc' = "loop" /\ NewestIs(entries', last'.line)) ]_vars
    /\ [][ pc' = "done" =>
              /\ pc = "loop"
              /\ entries' = entries
              /\ file' = FileOf(SaveText(entries))
              /\ (nops >= 1 /\ maxSize >= 1) => NewestIs(entries, lastOp.command) ]_vars
    /\ [][ pc = "done" => UNCHANGED vars ]_vars
    /\ [][ (pc = "loop" /\ nlines' = nlines + 1 /\ last'.stage = "blank") =>
              (entries' = entries /\ last'.path = "none" /\ last'.child = NoChild) ]_vars

\* The history was saved after the exit line, which is its newest entry.
SavedAfterExit ==
    /\ pc = "done" /\ ~running
    /\ last.cmd.Name = S_exit
    /\ NewestIs(entries, last.line)
    /\ file = FileOf(SaveText(entries))

-----------------------------------------------------------------------------
(* The command that is dispatched. *)

\* C35: every command the loop hands to Registry.Execute satisfies
\* ValidateCommand, also when the alias expansion produced it: a command with
\* both -N and -w, or with an invalid -t value, reaches no handler and no program.
C35_DispatchedCommandIsValid ==
    [][ (LineStep /\ last'.stage = "dispatch") => ValidateCommand(last'.cmd) = "" ]_vars

\* What holds of C35: a command dispatched under the name that was typed, no
\* alias applied, satisfies ValidateCommand.
C35_HoldsWithoutAlias ==
    [][ (/\ LineStep /\ last'.stage = "dispatch"
         /\ ParseCommand(last'.line).cmd.Name \notin DOMAIN aliases)
            => ValidateCommand(last'.cmd) = "" ]_vars

\* The arguments of a command are made of characters other than blanks, quote
\* characters and backslashes.
PlainArgs(cmd) ==
    \A i \in 1..Len(cmd.Args) : \A j \in 1..Len(cmd.Args[i]) :
        cmd.Args[i][j] \notin {" ", "\t", "\"", "'", "\\"}

\* C36: the alias expansion carries the positional arguments over unchanged: the
\* Args of the command dispatched end with the Args of the original command, and
\* no original argument becomes an option or makes the re-parse fail, whatever
\* the arguments hold (spaces, quote characters, backslashes, a leading dash).
C36_ArgumentsCarriedOver ==
    [][ AliasedStep =>
            LET o == ParseCommand(last'.line).cmd
                d == last'.cmd
                n == Len(o.Args)
            IN  /\ last'.stage = "dispatch"
                /\ Len(d.Args) >= n
                /\ SubSeq(d.Args, Len(d.Args) - n + 1, Len(d.Args)) = o.Args
                /\ DOMAIN d.Options = DOMAIN ParseCommand(aliases[o.Name]).cmd.Options ]_vars

\* What holds of C36: the same, for arguments without blanks, quote characters
\* and backslashes.
C36_HoldsForPlainArguments ==
    [][ (AliasedStep /\ PlainArgs(ParseCommand(last'.line).cmd)) =>
            LET o == ParseCommand(last'.line).cmd
                d == last'.cmd
                n == Len(o.Args)
            IN  /\ last'.stage = "dispatch"
                /\ Len(d.Args) >= n
                /\ SubSeq(d.Args, Len(d.Args) - n + 1, Len(d.Args)) = o.Args
                /\ DOMAIN d.Options = DOMAIN ParseCommand(aliases[o.Name]).cmd.Options ]_vars

-----------------------------------------------------------------------------
(* The size of the log and the slice bounds. *)

\* C37: Add and Load never index outside the entries slice, for every integer
\* maxSize that config.Load can hand to NewHistory, zero and the negative ones
\* included: no operation on the history panics.
C37_NoSliceOutOfRange == ~panicked

\* What holds of C37: with maxSize >= 0 neither Add nor Load panics.
C37_HoldsForNonNegativeSize == maxSize >= 0 => ~panicked

-----------------------------------------------------------------------------
(* The history file while Save runs. *)

\* C38: at every instant, also when the signal arrives while Save runs, the
\* history file holds a complete encoding of the log saved before or of the
\* current log: no step leaves the file empty or with a prefix of the entries.
C38_FileAlwaysComplete ==
    [][ file' = file \/ file' = FileOf(SaveText(entries')) ]_vars

\* What holds of C38: a step that does not end the process inside Save leaves
\* the file as it was or with the complete encoding of the log.
C38_HoldsWithoutInterrupt ==
    [][ pc' # "interrupted" => (file' = file \/ file' = FileOf(SaveText(entries'))) ]_vars

\* The process ended inside Save: the file that held a saved entry is empty, and
\* the log holds entries.
TruncatedBySignal ==
    /\ pc = "interrupted"
    /\ entries # <<>>
    /\ file = FileOf(<<>>)

-----------------------------------------------------------------------------
(* What Load leaves when it fails. *)

\* C39: a Load that returns an error, or that finds no file, leaves the log
\* exactly as it was; the log is replaced only by a Load that returns nil after
\* it has read the file, and then by the last maxSize entries read.
C39_FailedLoadLeavesLog ==
    [][ (lastOp'.op = "Load" /\ nops' = nops + 1) =>
            /\ (lastOp'.err \/ ~file.exists) => entries' = entries
            /\ entries' # entries =>
                  /\ file.exists /\ ~lastOp'.err /\ ~panicked'
                  /\ entries' = KeepLast(ValidEntries(file.text), maxSize) ]_vars

\* Load returned an error on a log that holds an entry, and the entry is there.
C39_Witness ==
    /\ lastOp.op = "Load" /\ lastOp.err
    /\ file.exists
    /\ entries # <<>>
    /\ accepted = <<entries[1].Command>>

-----------------------------------------------------------------------------
(* ParseJobOptions and the order of the map. *)

\* C40: the job options are a function of the option map alone: two runs of
\* ParseJobOptions on the same map return the same JobOptions, also when the map
\* holds the short and the long form of one field (-N and --nodes) and when it
\* holds several unrecognized options (same ExtraArgs, in the same order).
C40_JobOptionsOfTheMapAlone ==
    [][ (/\ pout.op = "ParseJobOptions" /\ pout'.op = "ParseJobOptions"
         /\ pin' = pin) => pout'.cmd = pout.cmd ]_vars

\* What holds of C40: two runs on a map with at most one unrecognized option
\* and at most one form of each field return the same JobOptions.
C40_HoldsForOneFormAndOneUnknown ==
    [][ (/\ pout.op = "ParseJobOptions" /\ pout'.op = "ParseJobOptions"
         /\ pin' = pin
         /\ Cardinality((DOMAIN pin.cmd.Options) \ RecognizedOptions) <= 1
         /\ ~({OptN, <<"-", "-", "n", "o", "d", "e", "s">>} \subseteq DOMAIN pin.cmd.Options))
            => pout'.cmd = pout.cmd ]_vars

=============================================================================
